---- MODULE Spec2Model ----
(***************************************************************************)
(* Real-time delivery layer of the e2ee messenger.                         *)
(*                                                                         *)
(*   SpecHub : the server-side connection Hub (websocket/hub.go,           *)
(*             websocket/client.go): the Run worker, concurrent SendToUser *)
(*             callers and each connection's readPump / writePump.         *)
(*   SpecWS  : the client-side Connection Manager (WebSocketService) as    *)
(*             driven by AuthProvider, the sockets it creates and their    *)
(*             events, the reconnect timer.                                *)
(***************************************************************************)
EXTENDS Integers, Sequences, FiniteSets, TLC

(***************************************************************************)
(* Bounds of the model.                                                    *)
(***************************************************************************)
\* capacity of a connection's outbound queue (make(chan []byte, 256) in the
\* code, scaled down so that "queue full" is reached)
SendBuf == 1
\* number of requests served in one run: SendToUser calls that reach the
\* fan-out, Broadcast calls and inbound ping frames
MaxInputs == 2
\* number of WebSocket objects that may be alive (not yet fully closed) at
\* the same time on the client
MaxSockets == 3

(***************************************************************************)
(* The server-side Hub.                                                    *)
(***************************************************************************)
Users == {"u1", "u2"}
Clients == {"c1", "c2", "c3"}
\* the goroutines (HTTP handlers) that call Hub.SendToUser
Senders == {"h1"}
\* Message values handed to SendToUser / Broadcast; "bad" is a value that
\* json.Marshal rejects.
Messages == {"m1", "bad"}
NoClient == "none"
NoPanic == [kind |-> "none", client |-> NoClient, by |-> "none"]
\* identities of the inner maps map[*Client]bool held by h.userClients;
\* 0 is the nil map
BucketIds == 1..(Cardinality(Users) + Cardinality(Senders))

VARIABLES
  clients,      \* h.clients: the set of keys of the map
  userClients,  \* h.userClients: user id -> inner map id (0: no entry)
  buckets,      \* inner map id -> set of keys of that inner map
  queue,        \* Client.send: buffered items of the channel
  closedBy,     \* Client.send: "open", or the code place that closed it
  runPc,        \* position of the Hub.Run goroutine
  runArg,       \* Run: the client received from register / unregister,
                \* or the client of the current broadcast iteration
  runMsg,       \* Run: the message received from h.broadcast
  runVisited,   \* Run: clients already produced by range h.clients
  spc,          \* position of each SendToUser caller
  sUser,        \* SendToUser: userID
  sData,        \* SendToUser: data
  sRef,         \* SendToUser: the inner map held in local userClients
  sSnap,        \* SendToUser: keys of that map when the range began
  sVisited,     \* SendToUser: keys already produced by the range
  sCur,         \* SendToUser: client of the current iteration
  sMsg,         \* SendToUser: message (history: the argument of the call)
  sSent,        \* history: what the call in progress has enqueued on each
                \* connection so far
  rp,           \* position of ServeWS / readPump of each connection
  nInputs,      \* requests served so far (bounded by MaxInputs)
  panicked      \* the run-time panic that ended the process (its kind,
                \* the connection whose queue it was raised on, the code
                \* place that raised it), or NoPanic

hubVars == <<clients, userClients, buckets, queue, closedBy,
             runPc, runArg, runMsg, runVisited, spc, sUser, sData, sRef,
             sSnap, sVisited, sCur, sMsg, sSent, rp, nInputs, panicked>>
runVars == <<runPc, runArg, runMsg, runVisited>>
senderVars == <<spc, sUser, sData, sRef, sSnap, sVisited, sCur, sMsg,
               sSent>>
chanVars == <<queue, closedBy>>

VARIABLES
  ws,                 \* this.ws: the socket the service refers to (0: null)
  sock,               \* readyState of every WebSocket object created
  url,                \* this.url / this.token: "null" or "set"
  status,             \* this.status
  reconnectAttempts,  \* this.reconnectAttempts
  reconnectDelay,     \* this.reconnectDelay
  reconnectTimer,     \* this.reconnectTimer and the timeout behind it
  pingTimer,          \* this.pingTimer: the ping interval is armed
  intent,             \* history: "up" after connect(), "down" after
                      \* disconnect() (AuthProvider's last call)
  errorEmits,         \* history: onStatusChange('error') calls since
                      \* connect() (2 stands for two or more)
  closures,           \* history: abnormal closures handled since the last
                      \* connect() or open
  scheduled           \* history: reconnects scheduled since the last
                      \* connect() or open

wsVars == <<ws, sock, url, status, reconnectAttempts, reconnectDelay,
            reconnectTimer, pingTimer, intent, errorEmits, closures,
            scheduled>>

VARIABLES
  inData,     \* event.data of the last message event handled ("none": no
              \* message event yet)
  forwarded,  \* history: the messages that handleMessage call passed to
              \* eventHandlers.onMessage
  msgErrors,  \* history: the eventHandlers.onError calls of that
              \* handleMessage call
  wire,       \* the texts handed to WebSocket.send so far
  refused     \* history: the messages send() was called with while the
              \* socket was not open

ioVars == <<inData, forwarded, msgErrors, wire, refused>>
VARIABLES
  identityKeyPair,  \* this.identityKeyPair (0: null)
  identityStore,    \* SecureStore item 'identity_key_pair' (0: none)
  sessions,         \* this.sessions: session id -> Session or NoSession
  sessionStore,     \* SecureStore item 'sessions': the entries last
                    \* written, or NoStore
  preKeys,          \* this.preKeys: the ids of its entries
  preKeyStore,      \* SecureStore item 'prekeys': whether it exists, and
                    \* the ids last written
  now,              \* the clock read by Date.now() and new Date()
  cmRet,            \* the last call of a manager method: its name, its
                    \* session id, its time and what it returned or threw
  plain,            \* history: what the last successful encrypt call was
                    \* given
  cipher,           \* history: what that call returned
  firstIdentity,    \* history: the key pair returned by the first
                    \* identity call since start or clearAll (0: none yet)
  issued,           \* history: the prekey ids returned so far
  reissued          \* history: a call returned an id that was issued
                    \* before

identityVars == <<identityKeyPair, identityStore, firstIdentity>>
preKeyVars == <<preKeys, preKeyStore, issued, reissued>>
sessionVars == <<sessions, sessionStore, plain, cipher>>
cmVars == <<identityVars, preKeyVars, sessionVars, now, cmRet>>
\* everything outside the Hub
\* an earlier successful call of generateSafetyNumber, any one of them: what
\* it returned, with the time, the identity, the peer and the device (empty
\* before the first call)
VARIABLES safetySeen
safetyVars == <<safetySeen>>
\* the chat store (messages, currentChat, error), the sendMessage call and
\* the loadMessages call in flight, the messages the server has stored, and
\* the receipts the app has dispatched
VARIABLES messages, currentChat, chatError, send, load, serverMsgs,
          dispatched, receiptRet, rendered
\* the read receipts the unread effect of ChatScreen has dispatched, what
\* the last receipt call did, and the list the effect last ran with
readVars == <<dispatched, receiptRet, rendered>>
\* history: the last updateMessage call made on the store from outside it,
\* with the list it found
VARIABLES lastUpdate
\* the 'new_message' notifications the server has handed to the hub for
\* this user and onMessage has not yet run with
VARIABLES notifications
chatVars == <<messages, currentChat, chatError, send, load, serverMsgs,
              readVars, lastUpdate, notifications>>
\* the server's receipts table, the 'message_receipt' notifications its
\* SendReceipt handler handed to the hub, and the handler's last response
VARIABLES receipts, notified, srvRet
srvVars == <<receipts, notified, srvRet>>
extVars == <<safetyVars, chatVars, srvVars>>

appVars == <<wsVars, ioVars, cmVars, extVars>>

\* Client.userID, fixed when ServeWS builds the Client
userID(c) == IF c = "c3" THEN "u2" ELSE "u1"

\* json.Marshal: the serialized form, and whether it fails
MarshalErr(m) == m = "bad"
Marshal(m) == "{" \o m \o "}"
\* the pong frame readPump answers a ping with
PongFrame == "{pong}"

Running == panicked = NoPanic

\* close(ch): closing a closed channel panics
Close(c, who) ==
  IF closedBy[c] # "open"
    THEN /\ panicked' = [kind |-> "close of closed channel", client |-> c,
                          by |-> who]
         /\ closedBy' = closedBy
    ELSE /\ closedBy' = [closedBy EXCEPT ![c] = who]
         /\ panicked' = panicked

\* an inner map no variable refers to any more
FreeBuckets ==
  BucketIds \ ({userClients[u] : u \in Users} \cup {sRef[s] : s \in Senders})
NewBucket == CHOOSE b \in FreeBuckets : \A b2 \in FreeBuckets : b <= b2

HubInit ==
  /\ clients = {}
  /\ userClients = [u \in Users |-> 0]
  /\ buckets = [b \in BucketIds |-> {}]
  /\ queue = [c \in Clients |-> <<>>]
  /\ closedBy = [c \in Clients |-> "open"]
  /\ runPc = "select"
  /\ runArg = NoClient
  /\ runMsg = ""
  /\ runVisited = {}
  /\ spc = [s \in Senders |-> "idle"]
  /\ sUser = [s \in Senders |-> "u1"]
  /\ sData = [s \in Senders |-> ""]
  /\ sRef = [s \in Senders |-> 0]
  /\ sSnap = [s \in Senders |-> {}]
  /\ sVisited = [s \in Senders |-> {}]
  /\ sCur = [s \in Senders |-> NoClient]
  /\ sMsg = [s \in Senders |-> ""]
  /\ sSent = [s \in Senders |-> [c \in Clients |-> <<>>]]
  /\ rp = [c \in Clients |-> "new"]
  /\ nInputs = 0
  /\ panicked = NoPanic

(***************************************************************************)
(* ServeWS and Hub.Run, case client := <-h.register                        *)
(***************************************************************************)
\* ServeWS builds the Client and hands it over on the unbuffered
\* h.register, which Run receives when it is at its select; Run does
\* h.clients[client] = true and ServeWS goes on to start both pumps
RunRegister(c) ==
  /\ Running
  /\ UNCHANGED appVars
  /\ UNCHANGED nInputs
  /\ runPc = "select"
  /\ rp[c] = "new"
  /\ clients' = clients \cup {c}
  /\ runPc' = "register_lock"
  /\ runArg' = c
  /\ rp' = [rp EXCEPT ![c] = "read"]
  /\ UNCHANGED <<userClients, buckets, chanVars, runMsg, runVisited,
                 senderVars, panicked>>

\* the section under userMutex.Lock
RunRegisterIndex ==
  /\ Running
  /\ UNCHANGED appVars
  /\ UNCHANGED nInputs
  /\ runPc = "register_lock"
  /\ LET u == userID(runArg)
         b == IF userClients[u] = 0 THEN NewBucket ELSE userClients[u]
     IN /\ userClients' = [userClients EXCEPT ![u] = b]
        /\ buckets' = [buckets EXCEPT ![b] =
                         (IF userClients[u] = 0 THEN {} ELSE @) \cup {runArg}]
  /\ runPc' = "select"
  /\ runArg' = NoClient
  /\ UNCHANGED <<clients, chanVars, runMsg, runVisited, senderVars, rp, panicked>>

(***************************************************************************)
(* Hub.Run, case client := <-h.unregister                                  *)
(***************************************************************************)
\* the receive, the test of h.clients and delete(h.clients, client)
RunUnregister(c) ==
  /\ Running
  /\ UNCHANGED appVars
  /\ UNCHANGED nInputs
  /\ runPc = "select"
  /\ rp[c] = "unregistering"
  /\ rp' = [rp EXCEPT ![c] = "done"]
  /\ IF c \in clients
       THEN /\ clients' = clients \ {c}
            /\ runPc' = "unregister_close"
            /\ runArg' = c
       ELSE UNCHANGED <<clients, runPc, runArg>>
  /\ UNCHANGED <<userClients, buckets, chanVars, runMsg, runVisited,
                 senderVars, panicked>>

\* close(client.send)
RunUnregisterClose ==
  /\ Running
  /\ UNCHANGED appVars
  /\ UNCHANGED nInputs
  /\ runPc = "unregister_close"
  /\ Close(runArg, "Run.unregister")
  /\ runPc' = "unregister_lock"
  /\ UNCHANGED <<clients, userClients, buckets, queue, runArg, runMsg,
                 runVisited, senderVars, rp>>

\* the section under userMutex.Lock
RunUnregisterIndex ==
  /\ Running
  /\ UNCHANGED appVars
  /\ UNCHANGED nInputs
  /\ runPc = "unregister_lock"
  /\ LET u == userID(runArg)
         b == userClients[u]
     IN IF b # 0
          THEN /\ buckets' = [buckets EXCEPT ![b] = @ \ {runArg}]
               /\ userClients' = IF buckets'[b] = {}
                                   THEN [userClients EXCEPT ![u] = 0]
                                   ELSE userClients
          ELSE UNCHANGED <<buckets, userClients>>
  /\ runPc' = "select"
  /\ runArg' = NoClient
  /\ UNCHANGED <<clients, chanVars, runMsg, runVisited, senderVars, rp, panicked>>

(***************************************************************************)
(* Hub.Run, case message := <-h.broadcast (Hub.Broadcast hands over the    *)
(* serialized message; a message json.Marshal rejects is never handed over)*)
(***************************************************************************)
RunBroadcast(m) ==
  /\ Running
  /\ UNCHANGED appVars
  /\ runPc = "select"
  /\ ~MarshalErr(m)
  /\ nInputs < MaxInputs
  /\ nInputs' = nInputs + 1
  /\ runMsg' = Marshal(m)
  /\ runVisited' = {}
  /\ runPc' = "broadcast_range"
  /\ UNCHANGED <<clients, userClients, buckets, chanVars, runArg, senderVars,
                 rp, panicked>>

\* for client := range h.clients: the next key, or the end of the loop
RunBroadcastRange ==
  /\ Running
  /\ UNCHANGED appVars
  /\ UNCHANGED nInputs
  /\ runPc = "broadcast_range"
  /\ IF clients \ runVisited = {}
       THEN /\ runPc' = "select"
            /\ runArg' = NoClient
            /\ runMsg' = ""
            /\ runVisited' = {}
       ELSE \E c \in clients \ runVisited :
              /\ runArg' = c
              /\ runVisited' = runVisited \cup {c}
              /\ runPc' = "broadcast_select"
              /\ runMsg' = runMsg
  /\ UNCHANGED <<clients, userClients, buckets, chanVars, senderVars, rp, panicked>>

\* select { case client.send <- message: default: }
RunBroadcastSelect ==
  /\ Running
  /\ UNCHANGED appVars
  /\ UNCHANGED nInputs
  /\ runPc = "broadcast_select"
  /\ IF closedBy[runArg] # "open"
       THEN /\ panicked' = [kind |-> "send on closed channel",
                             client |-> runArg, by |-> "Run.broadcast"]
            /\ UNCHANGED <<queue, runPc>>
       ELSE /\ panicked' = panicked
            /\ IF Len(queue[runArg]) < SendBuf
                 THEN /\ queue' = [queue EXCEPT ![runArg] = Append(@, runMsg)]
                      /\ runPc' = "broadcast_range"
                 ELSE /\ queue' = queue
                      /\ runPc' = "broadcast_close"
  /\ UNCHANGED <<clients, userClients, buckets, closedBy, runArg,
                 runMsg, runVisited, senderVars, rp>>

\* default: close(client.send)
RunBroadcastClose ==
  /\ Running
  /\ UNCHANGED appVars
  /\ UNCHANGED nInputs
  /\ runPc = "broadcast_close"
  /\ Close(runArg, "Run.broadcast")
  /\ runPc' = "broadcast_delete"
  /\ UNCHANGED <<clients, userClients, buckets, queue, runArg, runMsg,
                 runVisited, senderVars, rp>>

\* delete(h.clients, client)
RunBroadcastDelete ==
  /\ Running
  /\ UNCHANGED appVars
  /\ UNCHANGED nInputs
  /\ runPc = "broadcast_delete"
  /\ clients' = clients \ {runArg}
  /\ runPc' = "broadcast_range"
  /\ UNCHANGED <<userClients, buckets, chanVars, runArg, runMsg, runVisited,
                 senderVars, rp, panicked>>

(***************************************************************************)
(* Hub.SendToUser, called from the HTTP handlers' goroutines               *)
(***************************************************************************)
SenderReturn(s) ==
  /\ spc' = [spc EXCEPT ![s] = "idle"]
  /\ sUser' = [sUser EXCEPT ![s] = "u1"]
  /\ sData' = [sData EXCEPT ![s] = ""]
  /\ sRef' = [sRef EXCEPT ![s] = 0]
  /\ sSnap' = [sSnap EXCEPT ![s] = {}]
  /\ sVisited' = [sVisited EXCEPT ![s] = {}]
  /\ sCur' = [sCur EXCEPT ![s] = NoClient]
  /\ sMsg' = [sMsg EXCEPT ![s] = ""]
  /\ sSent' = [sSent EXCEPT ![s] = [c \in Clients |-> <<>>]]

\* SendToUser looking up the bucket of some user instead of userID's
SendToUserCallAnyUser(s, u, m) ==
  /\ Running
  /\ UNCHANGED appVars
  /\ spc[s] = "idle"
  /\ \E v \in Users :
       IF MarshalErr(m) \/ userClients[v] = 0
         THEN UNCHANGED <<senderVars, nInputs>>
         ELSE /\ nInputs < MaxInputs
              /\ nInputs' = nInputs + 1
              /\ spc' = [spc EXCEPT ![s] = "range"]
              /\ sUser' = [sUser EXCEPT ![s] = u]
              /\ sData' = [sData EXCEPT ![s] = Marshal(m)]
              /\ sRef' = [sRef EXCEPT ![s] = userClients[v]]
              /\ sSnap' = [sSnap EXCEPT ![s] = buckets[userClients[v]]]
              /\ sVisited' = [sVisited EXCEPT ![s] = {}]
              /\ sMsg' = [sMsg EXCEPT ![s] = m]
              /\ UNCHANGED <<sCur, sSent>>
  /\ UNCHANGED <<clients, userClients, buckets, chanVars, runVars, rp,
                 panicked>>

\* json.Marshal, then the lookup of h.userClients[userID] under RLock; the
\* range over the inner map starts on the keys it holds now
SendToUserCall(s, u, m) ==
  /\ Running
  /\ UNCHANGED appVars
  /\ spc[s] = "idle"
  /\ IF MarshalErr(m) \/ userClients[u] = 0
       THEN UNCHANGED <<senderVars, nInputs>>
       ELSE /\ nInputs < MaxInputs
            /\ nInputs' = nInputs + 1
            /\ spc' = [spc EXCEPT ![s] = "range"]
            /\ sUser' = [sUser EXCEPT ![s] = u]
            /\ sData' = [sData EXCEPT ![s] = Marshal(m)]
            /\ sRef' = [sRef EXCEPT ![s] = userClients[u]]
            /\ sSnap' = [sSnap EXCEPT ![s] = buckets[userClients[u]]]
            /\ sVisited' = [sVisited EXCEPT ![s] = {}]
            /\ sMsg' = [sMsg EXCEPT ![s] = m]
            /\ UNCHANGED <<sCur, sSent>>
  /\ UNCHANGED <<clients, userClients, buckets, chanVars, runVars, rp, panicked>>

\* for client := range userClients (no lock held): a key not yet produced
\* and still in the map is produced next; the loop ends once every key
\* that was there at the start is produced or deleted (a key added during
\* the iteration may be produced or skipped)
SendToUserRange(s) ==
  /\ Running
  /\ UNCHANGED appVars
  /\ UNCHANGED nInputs
  /\ spc[s] = "range"
  /\ \/ \E c \in buckets[sRef[s]] \ sVisited[s] :
          /\ sCur' = [sCur EXCEPT ![s] = c]
          /\ sVisited' = [sVisited EXCEPT ![s] = @ \cup {c}]
          /\ spc' = [spc EXCEPT ![s] = "select"]
          /\ UNCHANGED <<sUser, sData, sRef, sSnap, sMsg, sSent>>
     \/ /\ (buckets[sRef[s]] \cap sSnap[s]) \ sVisited[s] = {}
        /\ SenderReturn(s)
  /\ UNCHANGED <<clients, userClients, buckets, chanVars, runVars, rp, panicked>>

\* select { case client.send <- data: default: }
SendToUserSelect(s) ==
  /\ Running
  /\ UNCHANGED appVars
  /\ UNCHANGED nInputs
  /\ spc[s] = "select"
  /\ LET c == sCur[s]
     IN IF closedBy[c] # "open"
          THEN /\ panicked' = [kind |-> "send on closed channel",
                                client |-> c, by |-> "SendToUser"]
               /\ UNCHANGED <<queue, spc, sSent>>
          ELSE /\ panicked' = panicked
               /\ IF Len(queue[c]) < SendBuf
                    THEN /\ queue' = [queue EXCEPT ![c] = Append(@, sData[s])]
                         /\ sSent' = [sSent EXCEPT ![s][c] = Append(@, sData[s])]
                         /\ spc' = [spc EXCEPT ![s] = "range"]
                    ELSE /\ queue' = queue
                         /\ sSent' = sSent
                         /\ spc' = [spc EXCEPT ![s] = "drop_close"]
  /\ UNCHANGED <<clients, userClients, buckets, closedBy, runVars,
                 sUser, sData, sRef, sSnap, sVisited, sCur, sMsg, rp>>

\* default: close(client.send)
SendToUserClose(s) ==
  /\ Running
  /\ UNCHANGED appVars
  /\ UNCHANGED nInputs
  /\ spc[s] = "drop_close"
  /\ Close(sCur[s], "SendToUser")
  /\ spc' = [spc EXCEPT ![s] = "drop_delete"]
  /\ UNCHANGED <<clients, userClients, buckets, queue, runVars, sUser, sData,
                 sRef, sSnap, sVisited, sCur, sMsg, sSent, rp>>

\* delete(h.clients, client)
SendToUserDelete(s) ==
  /\ Running
  /\ UNCHANGED appVars
  /\ UNCHANGED nInputs
  /\ spc[s] = "drop_delete"
  /\ clients' = clients \ {sCur[s]}
  /\ spc' = [spc EXCEPT ![s] = "drop_lock"]
  /\ UNCHANGED <<userClients, buckets, chanVars, runVars, sUser, sData, sRef,
                 sSnap, sVisited, sCur, sMsg, sSent, rp, panicked>>

\* the section under userMutex.Lock: delete(userClients, client) on the
\* inner map the call holds, delete(h.userClients, userID) when it is empty
SendToUserIndex(s) ==
  /\ Running
  /\ UNCHANGED appVars
  /\ UNCHANGED nInputs
  /\ spc[s] = "drop_lock"
  /\ buckets' = [buckets EXCEPT ![sRef[s]] = @ \ {sCur[s]}]
  /\ userClients' = IF buckets'[sRef[s]] = {}
                      THEN [userClients EXCEPT ![sUser[s]] = 0]
                      ELSE userClients
  /\ spc' = [spc EXCEPT ![s] = "range"]
  /\ UNCHANGED <<clients, chanVars, runVars, sUser, sData, sRef, sSnap,
                 sVisited, sCur, sMsg, sSent, rp, panicked>>

(***************************************************************************)
(* Client.readPump                                                         *)
(***************************************************************************)
Frames == {"ping", "message_received", "other", "error"}

\* wsjson.Read and the switch on msg.Type; "error" is a failed read (close
\* frame, timeout, transport error), which leaves the loop for the deferred
\* c.hub.unregister <- c
ReadPumpRead(c, f) ==
  /\ Running
  /\ UNCHANGED appVars
  /\ rp[c] = "read"
  /\ IF f = "ping"
       THEN nInputs < MaxInputs /\ nInputs' = nInputs + 1
       ELSE UNCHANGED nInputs
  /\ CASE f = "error" ->
            /\ rp' = [rp EXCEPT ![c] = "unregistering"]
            /\ UNCHANGED <<queue, panicked>>
       [] f = "ping" ->
            IF closedBy[c] # "open"
              THEN /\ panicked' = [kind |-> "send on closed channel",
                                   client |-> c, by |-> "readPump"]
                   /\ UNCHANGED <<queue, rp>>
              ELSE /\ panicked' = panicked
                   /\ IF Len(queue[c]) < SendBuf
                        THEN /\ queue' = [queue EXCEPT ![c] = Append(@, PongFrame)]
                             /\ rp' = rp
                        ELSE /\ queue' = queue
                             /\ rp' = [rp EXCEPT ![c] = "ping_close"]
       [] OTHER -> UNCHANGED <<queue, rp, panicked>>
  /\ UNCHANGED <<clients, userClients, buckets, closedBy, runVars,
                 senderVars>>

\* default: close(c.send); return, which runs the deferred unregister
ReadPumpPingClose(c) ==
  /\ Running
  /\ UNCHANGED appVars
  /\ UNCHANGED nInputs
  /\ rp[c] = "ping_close"
  /\ Close(c, "readPump")
  /\ rp' = [rp EXCEPT ![c] = "unregistering"]
  /\ UNCHANGED <<clients, userClients, buckets, queue, runVars, senderVars>>

(***************************************************************************)
(* Client.writePump                                                        *)
(***************************************************************************)
\* both pumps are started once ServeWS's register request was received
Started(c) == rp[c] # "new"

\* case message, ok := <-c.send: the pump takes the next buffered item
\* (buffered items are still received after the channel is closed).  A
\* pump that has returned, after !ok or a failed Write or Ping, takes
\* nothing more: that is this action never firing again.
WritePumpReceive(c) ==
  /\ Running
  /\ UNCHANGED appVars
  /\ UNCHANGED nInputs
  /\ Started(c)
  /\ queue[c] # <<>>
  /\ queue' = [queue EXCEPT ![c] = Tail(@)]
  /\ UNCHANGED <<clients, userClients, buckets, closedBy, runVars,
                 senderVars, rp, panicked>>

(***************************************************************************)
(* Unsynchronized map accesses.  Each goroutine's next step reads or writes*)
(* h.clients (loc "clients"), h.userClients (loc "index") or an inner map  *)
(* (loc "bucket"), with or without userMutex held.                         *)
(***************************************************************************)
Access(l, b, w, k) == [loc |-> l, id |-> b, write |-> w, locked |-> k]

\* the accesses of the next step of Hub.Run
RunAccess ==
  CASE runPc = "select" ->
         IF \E c \in Clients : rp[c] \in {"new", "unregistering"}
           THEN {Access("clients", 0, TRUE, FALSE)}
           ELSE {}
    [] runPc \in {"register_lock", "unregister_lock"} ->
         {Access("index", 0, TRUE, TRUE),
          Access("bucket", userClients[userID(runArg)], TRUE, TRUE)}
    [] runPc = "broadcast_range" -> {Access("clients", 0, FALSE, FALSE)}
    [] runPc = "broadcast_delete" -> {Access("clients", 0, TRUE, FALSE)}
    [] OTHER -> {}

\* the accesses of the next step of a SendToUser caller
SenderAccess(s) ==
  CASE spc[s] = "idle" -> {Access("index", 0, FALSE, TRUE)}
    [] spc[s] = "range" -> {Access("bucket", sRef[s], FALSE, FALSE)}
    [] spc[s] = "drop_delete" -> {Access("clients", 0, TRUE, FALSE)}
    [] spc[s] = "drop_lock" ->
         {Access("index", 0, TRUE, TRUE), Access("bucket", sRef[s], TRUE, TRUE)}
    [] OTHER -> {}

Conflict(a, b) ==
  /\ a.loc = b.loc
  /\ a.id = b.id
  /\ a.write \/ b.write
  /\ ~(a.locked /\ b.locked)

\* two goroutines are about to touch the same map, one of them writing,
\* not both under the lock
DataRace ==
  \/ \E s \in Senders : \E a \in SenderAccess(s) : \E b \in RunAccess :
       Conflict(a, b)
  \/ \E s1, s2 \in Senders :
       /\ s1 # s2
       /\ \E a \in SenderAccess(s1) : \E b \in SenderAccess(s2) : Conflict(a, b)

\* Go's maps are not safe for concurrent use: besides any interleaving of
\* the two accesses, the runtime may stop the process with "fatal error:
\* concurrent map writes" / "concurrent map iteration and map write"
MapFault ==
  /\ Running
  /\ UNCHANGED appVars
  /\ UNCHANGED nInputs
  /\ DataRace
  /\ panicked' = [kind |-> "concurrent map access", client |-> NoClient,
                   by |-> "runtime"]
  /\ UNCHANGED <<clients, userClients, buckets, chanVars, runVars, senderVars,
                 rp>>

HubNext ==
  \/ \E c \in Clients : RunRegister(c)
  \/ RunRegisterIndex
  \/ \E c \in Clients : RunUnregister(c)
  \/ RunUnregisterClose
  \/ RunUnregisterIndex
  \/ \E m \in Messages : RunBroadcast(m)
  \/ RunBroadcastRange
  \/ RunBroadcastSelect
  \/ RunBroadcastClose
  \/ RunBroadcastDelete
  \/ \E s \in Senders : \E u \in Users : \E m \in Messages : SendToUserCall(s, u, m)
  \/ \E s \in Senders : SendToUserRange(s)
  \/ \E s \in Senders : SendToUserSelect(s)
  \/ \E s \in Senders : SendToUserClose(s)
  \/ \E s \in Senders : SendToUserDelete(s)
  \/ \E s \in Senders : SendToUserIndex(s)
  \/ \E c \in Clients : \E f \in Frames : ReadPumpRead(c, f)
  \/ \E c \in Clients : ReadPumpPingClose(c)
  \/ \E c \in Clients : WritePumpReceive(c)
  \/ MapFault

(***************************************************************************)
(* The client-side Connection Manager: class WebSocketService.  Every      *)
(* method, timer callback and socket event handler runs to completion on   *)
(* the JavaScript thread, so each is one step.  The handlers are written   *)
(* as functions on the record of the service's fields, which the actions   *)
(* compose in the order the code calls them.                               *)
(***************************************************************************)
MaxReconnectAttempts == 5
BaseReconnectDelay == 1000
MaxReconnectDelay == 30000
\* close code of a graceful close, and the one standing for every other code
NormalClosure == 1000
AbnormalClosure == 1006
CloseCodes == {NormalClosure, AbnormalClosure}

SockIds == 1..MaxSockets
\* this.reconnectTimer: "null", or the handle of a timeout that is pending
\* or has fired; delay is the timeout's delay, attempt (history) the number
\* of the reconnect it was scheduled for
NoTimer == [state |-> "null", delay |-> 0, attempt |-> 0]

Min(a, b) == IF a <= b THEN a ELSE b

Svc == [ws |-> ws, sock |-> sock, url |-> url, status |-> status,
        reconnectAttempts |-> reconnectAttempts,
        reconnectDelay |-> reconnectDelay, reconnectTimer |-> reconnectTimer,
        pingTimer |-> pingTimer, errorEmits |-> errorEmits,
        closures |-> closures, scheduled |-> scheduled]

Commit(st) ==
  /\ ws' = st.ws
  /\ sock' = st.sock
  /\ url' = st.url
  /\ status' = st.status
  /\ reconnectAttempts' = st.reconnectAttempts
  /\ reconnectDelay' = st.reconnectDelay
  /\ reconnectTimer' = st.reconnectTimer
  /\ pingTimer' = st.pingTimer
  /\ errorEmits' = st.errorEmits
  /\ closures' = st.closures
  /\ scheduled' = st.scheduled

WSInit ==
  /\ ws = 0
  /\ sock = [k \in SockIds |-> "none"]
  /\ url = "null"
  /\ status = "disconnected"
  /\ reconnectAttempts = 0
  /\ reconnectDelay = BaseReconnectDelay
  /\ reconnectTimer = NoTimer
  /\ pingTimer = FALSE
  /\ intent = "down"
  /\ errorEmits = 0
  /\ closures = 0
  /\ scheduled = 0
  /\ inData = "none"
  /\ forwarded = <<>>
  /\ msgErrors = 0
  /\ wire = {}
  /\ refused = {}

\* setStatus: the handler is told only when the status changes
SetStatus(st, s) ==
  IF st.status # s
    THEN [st EXCEPT !.status = s,
                    !.errorEmits = IF s = "error" /\ @ < 2 THEN @ + 1 ELSE @]
    ELSE st

StopPingTimer(st) == [st EXCEPT !.pingTimer = FALSE]
StartPingTimer(st) == [StopPingTimer(st) EXCEPT !.pingTimer = TRUE]

\* a WebSocket object that is fully closed fires no further event; its slot
\* stands for the next object created
FreeSocks(st) == {k \in SockIds : st.sock[k] = "none"}
NewSock(st) == CHOOSE k \in FreeSocks(st) : \A j \in FreeSocks(st) : k <= j

\* establishConnection: new WebSocket(wsUrl), setStatus('connecting'), the
\* four handlers attached to the new object (url and token are set by every
\* caller's connect(), and the URL is the well-formed configured one, so
\* neither throw is taken)
EstablishConnection(st) ==
  LET k == NewSock(st)
  IN SetStatus([st EXCEPT !.ws = k, !.sock[k] = "connecting"], "connecting")

\* scheduleReconnect
ScheduleReconnect(st) ==
  LET n == st.reconnectAttempts + 1
      delay == Min(st.reconnectDelay * 2^(n - 1), MaxReconnectDelay)
  IN [st EXCEPT !.reconnectAttempts = n,
                !.scheduled = @ + 1,
                !.reconnectTimer =
                   [state |-> "pending", delay |-> delay,
                    attempt |-> st.scheduled + 1]]

\* handleOpen without the reset of reconnectAttempts
HandleOpenKeepsAttempts(st) ==
  StartPingTimer([SetStatus(st, "connected") EXCEPT
                    !.reconnectDelay = 1000,
                    !.closures = 0,
                    !.scheduled = 0])

\* handleOpen
HandleOpen(st) ==
  StartPingTimer([SetStatus(st, "connected") EXCEPT
                    !.reconnectAttempts = 0,
                    !.reconnectDelay = 1000,
                    !.closures = 0,
                    !.scheduled = 0])

\* handleClose without the test of the close code
HandleCloseAnyCode(st, code) ==
  LET a == StopPingTimer(SetStatus(st, "disconnected"))
  IN IF a.reconnectAttempts < MaxReconnectAttempts
       THEN ScheduleReconnect(a)
       ELSE a

\* handleClose
HandleClose(st, code) ==
  LET a == StopPingTimer(SetStatus(st, "disconnected"))
      b == [a EXCEPT !.closures =
              IF code # NormalClosure /\ @ <= MaxReconnectAttempts
                THEN @ + 1 ELSE @]
  IN IF code # 1000 /\ b.reconnectAttempts < MaxReconnectAttempts
       THEN ScheduleReconnect(b)
       ELSE b

\* handleError
HandleError(st) == SetStatus(st, "error")

\* WebSocket.close(): a socket that is still connecting is failed, an open
\* one starts the closing handshake, a closing one is left as it is
CloseSocket(s) ==
  CASE s = "connecting" -> "closing_connect"
    [] s = "open" -> "closing"
    [] OTHER -> s

\* disconnect
Disconnect(st) ==
  LET a == StopPingTimer(st)
      b == IF a.reconnectTimer.state # "null"
             THEN [a EXCEPT !.reconnectTimer = NoTimer]
             ELSE a
      c == IF b.ws # 0
             THEN [b EXCEPT !.sock[b.ws] = CloseSocket(@), !.ws = 0]
             ELSE b
  IN SetStatus(c, "disconnected")

\* connect(url, token, handlers), called by AuthProvider's effect, whose
\* clean-up has called disconnect() since the previous connect()
Connect ==
  /\ intent = "down"
  /\ FreeSocks(Svc) # {}
  /\ Commit(EstablishConnection([Svc EXCEPT !.url = "set",
                                            !.reconnectAttempts = 0,
                                            !.errorEmits = 0,
                                            !.closures = 0,
                                            !.scheduled = 0]))
  /\ intent' = "up"
  /\ UNCHANGED <<hubVars, ioVars, cmVars, extVars>>

\* disconnect(), called by AuthProvider's effect (not authenticated) and by
\* its clean-up
DisconnectCall ==
  /\ Commit(Disconnect(Svc))
  /\ intent' = "down"
  /\ UNCHANGED <<hubVars, ioVars, cmVars, extVars>>

\* the reconnect timeout fires: establishConnection
ReconnectTimerFires ==
  /\ reconnectTimer.state = "pending"
  /\ url = "set"
  /\ FreeSocks(Svc) # {}
  /\ Commit(EstablishConnection([Svc EXCEPT !.reconnectTimer.state = "fired"]))
  /\ UNCHANGED <<intent, hubVars, ioVars, cmVars, extVars>>

\* open event of a socket
SockOpen(k) ==
  /\ sock[k] = "connecting"
  /\ Commit(HandleOpen([Svc EXCEPT !.sock[k] = "open"]))
  /\ UNCHANGED <<intent, hubVars, ioVars, cmVars, extVars>>

\* a socket fails (connection refused or lost, or closed by close() before
\* it was established): its error event and then its close event, with a
\* code other than 1000
SockFail(k) ==
  /\ sock[k] \in {"connecting", "open", "closing_connect", "closing"}
  /\ Commit(HandleClose(HandleError([Svc EXCEPT !.sock[k] = "none"]),
                        AbnormalClosure))
  /\ UNCHANGED <<intent, hubVars, ioVars, cmVars, extVars>>

\* close event of a socket without an error event: the peer closed an open
\* socket, or the closing handshake begun by close() ended
SockClose(k, code) ==
  /\ sock[k] \in {"open", "closing"}
  /\ Commit(HandleClose([Svc EXCEPT !.sock[k] = "none"], code))
  /\ UNCHANGED <<intent, hubVars, ioVars, cmVars, extVars>>

\* the text of an inbound frame: the server's pong, a new_message
\* notification, an object without a type, the JSON value null, and a text
\* cut off in the middle
InFrames == {"{\"type\":\"pong\"}", "{\"type\":\"new_message\"}", "{}", "null",
             "{\"type\":\"new_mes"}

\* JSON.parse(event.data): the value parsed, or the SyntaxError thrown
JSONParse(d) ==
  CASE d = "{\"type\":\"pong\"}" -> [kind |-> "object", type |-> "pong"]
    [] d = "{\"type\":\"new_message\"}" ->
         [kind |-> "object", type |-> "new_message"]
    [] d = "{}" -> [kind |-> "object", type |-> "undefined"]
    [] d = "null" -> [kind |-> "null", type |-> "undefined"]
    [] OTHER -> [kind |-> "SyntaxError", type |-> "undefined"]

\* handleMessage without the test for pong
HandleMessageForwardsAll(d) ==
  LET message == JSONParse(d)
  IN IF message.kind = "object"
       THEN [forwarded |-> <<message>>, errors |-> 0]
       ELSE [forwarded |-> <<>>, errors |-> 1]

\* handleMessage: what it passes to onMessage and how often it calls
\* onError (JSON.parse throws on a malformed text, message.type throws on
\* null; both are caught)
HandleMessage(d) ==
  LET message == JSONParse(d)
  IN CASE message.kind = "SyntaxError" -> [forwarded |-> <<>>, errors |-> 1]
       [] message.kind = "null" -> [forwarded |-> <<>>, errors |-> 1]
       [] message.type = "pong" -> [forwarded |-> <<>>, errors |-> 0]
       [] OTHER -> [forwarded |-> <<message>>, errors |-> 0]

\* message event of a socket (a socket delivers messages while it is open
\* or closing)
SockMessage(k, d) ==
  /\ sock[k] \in {"open", "closing"}
  /\ inData' = d
  /\ forwarded' = HandleMessage(d).forwarded
  /\ msgErrors' = HandleMessage(d).errors
  /\ UNCHANGED <<wsVars, hubVars, cmVars, extVars, wire, refused>>

\* the messages the public send methods build (sendMessageReceived,
\* sendMessageRead)
OutMsgs == {"message_received", "message_read"}
\* JSON.stringify(message)
Stringify(m) == "{\"type\":\"" \o m \o "\"}"

\* a send() that does not look at the socket
TransmitsAlways(st) == TRUE

\* send / sendPing: this.ws && this.ws.readyState === WebSocket.OPEN
Transmits(st) == st.ws # 0 /\ st.sock[st.ws] = "open"

\* send(message); every receipt names its own message, so no message is
\* passed to send twice
SendCall(m) ==
  /\ m \notin refused
  /\ Stringify(m) \notin wire
  /\ IF Transmits(Svc)
       THEN wire' = wire \cup {Stringify(m)} /\ UNCHANGED refused
       ELSE refused' = refused \cup {m} /\ UNCHANGED wire
  /\ UNCHANGED <<wsVars, hubVars, cmVars, extVars, inData, forwarded, msgErrors>>

\* the ping interval fires: sendPing
PingTimerFires ==
  /\ pingTimer
  /\ wire' = IF Transmits(Svc) THEN wire \cup {Stringify("ping")} ELSE wire
  /\ UNCHANGED <<wsVars, hubVars, cmVars, extVars, inData, forwarded, msgErrors,
                 refused>>

WSNext ==
  \/ Connect
  \/ DisconnectCall
  \/ ReconnectTimerFires
  \/ \E k \in SockIds : SockOpen(k)
  \/ \E k \in SockIds : SockFail(k)
  \/ \E k \in SockIds : \E code \in CloseCodes : SockClose(k, code)

\* the service with the frames it receives
WSInNext ==
  \/ WSNext
  \/ \E k \in SockIds : \E d \in InFrames : SockMessage(k, d)

\* the service with the messages it sends
WSOutNext ==
  \/ WSNext
  \/ \E m \in OutMsgs : SendCall(m)
  \/ PingTimerFires

(***************************************************************************)
(* The CryptoManager (app/src/crypto): texts are sequences of UTF-16 code  *)
(* units, byte strings sequences of bytes, Base64 texts sequences of the   *)
(* indices of their characters in the Base64 alphabet (Pad for '=').       *)
(***************************************************************************)
Pad == 64
ReplacementChar == 65533
HighSurrogates == 55296..56319
LowSurrogates == 56320..57343

\* Buffer.from(text): the UTF-8 bytes of a string; a surrogate without its
\* partner is encoded as U+FFFD
RECURSIVE Utf8From(_, _)
Utf8From(s, i) ==
  IF i > Len(s) THEN <<>>
  ELSE LET c == s[i]
       IN IF c < 128 THEN <<c>> \o Utf8From(s, i + 1)
          ELSE IF c < 2048
            THEN <<192 + (c \div 64), 128 + (c % 64)>> \o Utf8From(s, i + 1)
          ELSE IF c \in HighSurrogates /\ i < Len(s)
                  /\ s[IF i < Len(s) THEN i + 1 ELSE i] \in LowSurrogates
            THEN LET cp == 65536 + (c - 55296) * 1024 + (s[i + 1] - 56320)
                 IN <<240 + (cp \div 262144), 128 + ((cp \div 4096) % 64),
                      128 + ((cp \div 64) % 64), 128 + (cp % 64)>>
                    \o Utf8From(s, i + 2)
          ELSE IF c \in HighSurrogates \cup LowSurrogates
            THEN <<239, 191, 189>> \o Utf8From(s, i + 1)
          ELSE <<224 + (c \div 4096), 128 + ((c \div 64) % 64),
                 128 + (c % 64)>> \o Utf8From(s, i + 1)
Utf8Encode(s) == Utf8From(s, 1)

IsCont(b, i) == i <= Len(b) /\ b[IF i <= Len(b) THEN i ELSE 1] \in 128..191

\* buffer.toString('utf-8'): a byte that begins no valid sequence decodes
\* to U+FFFD
RECURSIVE Utf8To(_, _)
Utf8To(b, i) ==
  IF i > Len(b) THEN <<>>
  ELSE LET c == b[i]
           two == ((c % 32) * 64) + (b[i + 1] % 64)
           three == ((c % 16) * 4096) + ((b[i + 1] % 64) * 64)
                      + (b[i + 2] % 64)
           four == ((c % 8) * 262144) + ((b[i + 1] % 64) * 4096)
                      + ((b[i + 2] % 64) * 64) + (b[i + 3] % 64)
       IN IF c < 128 THEN <<c>> \o Utf8To(b, i + 1)
          ELSE IF c \in 192..223 /\ IsCont(b, i + 1) /\ two > 127
            THEN <<two>> \o Utf8To(b, i + 2)
          ELSE IF c \in 224..239 /\ IsCont(b, i + 1) /\ IsCont(b, i + 2)
                  /\ three > 2047
                  /\ three \notin HighSurrogates \cup LowSurrogates
            THEN <<three>> \o Utf8To(b, i + 3)
          ELSE IF c \in 240..247 /\ IsCont(b, i + 1) /\ IsCont(b, i + 2)
                  /\ IsCont(b, i + 3) /\ four > 65535 /\ four < 1114112
            THEN <<55296 + ((four - 65536) \div 1024),
                   56320 + ((four - 65536) % 1024)>> \o Utf8To(b, i + 4)
          ELSE <<ReplacementChar>> \o Utf8To(b, i + 1)
Utf8Decode(b) == Utf8To(b, 1)

\* buffer.toString('base64')
RECURSIVE Base64From(_, _)
Base64From(b, i) ==
  IF i > Len(b) THEN <<>>
  ELSE LET n == Len(b) - i + 1
           v == (b[i] * 65536) + ((IF n >= 2 THEN b[i + 1] ELSE 0) * 256)
                  + (IF n >= 3 THEN b[i + 2] ELSE 0)
       IN <<v \div 262144, (v \div 4096) % 64,
            IF n >= 2 THEN (v \div 64) % 64 ELSE Pad,
            IF n >= 3 THEN v % 64 ELSE Pad>> \o Base64From(b, i + 3)
Base64Encode(b) == Base64From(b, 1)

\* the characters of a Base64 text before its first '='
RECURSIVE BeforePad(_, _)
BeforePad(p, i) ==
  IF i > Len(p) \/ p[IF i > Len(p) THEN 1 ELSE i] = Pad THEN <<>>
  ELSE <<p[i]>> \o BeforePad(p, i + 1)

\* Buffer.from(payload, 'base64'): four characters give three bytes, three
\* left over give two, two give one, a single one gives none
RECURSIVE Base64To(_, _)
Base64To(q, i) ==
  LET n == Len(q) - i + 1
  IN IF n <= 1 THEN <<>>
     ELSE IF n = 2
       THEN <<(q[i] * 4) + (q[i + 1] \div 16)>>
     ELSE IF n = 3
       THEN <<(q[i] * 4) + (q[i + 1] \div 16),
              ((q[i + 1] % 16) * 16) + (q[i + 2] \div 4)>>
     ELSE <<(q[i] * 4) + (q[i + 1] \div 16),
            ((q[i + 1] % 16) * 16) + (q[i + 2] \div 4),
            ((q[i + 2] % 4) * 64) + q[i + 3]>> \o Base64To(q, i + 4)
Base64Decode(p) == Base64To(BeforePad(p, 1), 1)

\* the code units of the characters JSON texts are made of
Quote == 34
Backslash == 92
Undefined == <<-1>>

HexDigit(d) == IF d < 10 THEN 48 + d ELSE 87 + d
HexVal(c) ==
  IF c \in 48..57 THEN c - 48
  ELSE IF c \in 97..102 THEN c - 87
  ELSE IF c \in 65..70 THEN c - 55
  ELSE -1

\* JSON.stringify of a string, without the quotes around it: '"' and '\'
\* are escaped, a surrogate without its partner is written \udxxx
RECURSIVE JsonEscape(_, _)
JsonEscape(s, i) ==
  IF i > Len(s) THEN <<>>
  ELSE LET c == s[i]
       IN IF c = Quote \/ c = Backslash
            THEN <<Backslash, c>> \o JsonEscape(s, i + 1)
          ELSE IF c \in HighSurrogates /\ i < Len(s)
                  /\ s[IF i < Len(s) THEN i + 1 ELSE i] \in LowSurrogates
            THEN <<c, s[i + 1]>> \o JsonEscape(s, i + 2)
          ELSE IF c \in HighSurrogates \cup LowSurrogates
            THEN <<Backslash, 117, HexDigit(c \div 4096),
                   HexDigit((c \div 256) % 16), HexDigit((c \div 16) % 16),
                   HexDigit(c % 16)>> \o JsonEscape(s, i + 1)
          ELSE <<c>> \o JsonEscape(s, i + 1)
JsonString(s) == <<Quote>> \o JsonEscape(s, 1) \o <<Quote>>

\* the property names "content" and "type"
KeyContent == <<99, 111, 110, 116, 101, 110, 116>>
KeyType == <<116, 121, 112, 101>>

\* JSON.stringify(message), for the two properties of a message the
\* manager reads back (the ids and the timestamp are written the same way)
JsonStringify(m) ==
  <<123>> \o JsonString(KeyContent) \o <<58>> \o JsonString(m.content)
    \o <<44>> \o JsonString(KeyType) \o <<58>> \o JsonString(m.type)
    \o <<125>>

\* JSON.parse of a string literal from the character after its opening
\* quote: the string, and the position after its closing quote
RECURSIVE JsonReadString(_, _)
JsonReadString(t, i) ==
  IF i > Len(t) THEN [ok |-> FALSE, val |-> <<>>, next |-> i]
  ELSE LET c == t[i]
           one(ch, n) ==
             LET r == JsonReadString(t, n)
             IN [ok |-> r.ok, val |-> <<ch>> \o r.val, next |-> r.next]
           bad == [ok |-> FALSE, val |-> <<>>, next |-> i]
       IN IF c = Quote THEN [ok |-> TRUE, val |-> <<>>, next |-> i + 1]
          ELSE IF c < 32 THEN bad
          ELSE IF c # Backslash THEN one(c, i + 1)
          ELSE IF i + 1 > Len(t) THEN bad
          ELSE LET e == t[i + 1]
               IN IF e \in {Quote, Backslash, 47} THEN one(e, i + 2)
                  ELSE IF e = 110 THEN one(10, i + 2)
                  ELSE IF e = 116 THEN one(9, i + 2)
                  ELSE IF e = 114 THEN one(13, i + 2)
                  ELSE IF e = 98 THEN one(8, i + 2)
                  ELSE IF e = 102 THEN one(12, i + 2)
                  ELSE IF e = 117 /\ i + 5 <= Len(t)
                          /\ \A j \in 2..5 :
                               HexVal(t[IF i + j <= Len(t) THEN i + j
                                        ELSE 1]) >= 0
                    THEN one((HexVal(t[i + 2]) * 4096)
                               + (HexVal(t[i + 3]) * 256)
                               + (HexVal(t[i + 4]) * 16) + HexVal(t[i + 5]),
                             i + 6)
                  ELSE bad

\* the members of an object from the opening quote of a property name on:
\* "name":"value" pairs separated by ',' and closed by '}' at the end of
\* the text
RECURSIVE JsonMembers(_, _)
JsonMembers(t, i) ==
  LET bad == [ok |-> FALSE, members |-> <<>>]
      At(j) == IF j <= Len(t) THEN t[j] ELSE -1
      k == JsonReadString(t, i + 1)
      v == JsonReadString(t, k.next + 2)
  IN IF At(i) # Quote \/ ~k.ok THEN bad
     ELSE IF At(k.next) # 58 \/ At(k.next + 1) # Quote \/ ~v.ok THEN bad
     ELSE IF At(v.next) = 125
       THEN IF v.next = Len(t)
              THEN [ok |-> TRUE, members |-> <<<<k.val, v.val>>>>]
              ELSE bad
     ELSE IF At(v.next) = 44
       THEN LET r == JsonMembers(t, v.next + 1)
            IN [ok |-> r.ok, members |-> <<<<k.val, v.val>>>> \o r.members]
     ELSE bad

\* JSON.parse(text) for a text that is an object of string properties;
\* every other text of the model is no JSON text and throws SyntaxError
JsonParse(t) ==
  IF Len(t) < 2 \/ t[1] # 123
    THEN [ok |-> FALSE, members |-> <<>>]
  ELSE IF t = <<123, 125>> THEN [ok |-> TRUE, members |-> <<>>]
  ELSE JsonMembers(t, 2)

\* object[name]: the last member of that name, undefined if there is none
RECURSIVE JsonGet(_, _, _)
JsonGet(members, name, i) ==
  IF i = 0 THEN Undefined
  ELSE IF members[i][1] = name THEN members[i][2]
  ELSE JsonGet(members, name, i - 1)
Property(obj, name) == JsonGet(obj.members, name, Len(obj.members))

\* the clock runs to MaxClock; key pairs are drawn from 1..MaxKeys
MaxClock == 2
MaxKeys == 2
\* publishPrekeys is called with 0..MaxCount, or without a count
MaxCount == 2
DefaultCount == 10

KeyValues == 1..MaxKeys
PublishCounts == (0..MaxCount) \cup {DefaultCount}

\* peer and device ids, and the (peer, device) pairs sessions are made for
Pairs == {<<"a", "b_c">>, <<"a_b", "c">>, <<"a", "c">>}
\* `${peerId}_${deviceId}`
SessionId(peerId, deviceId) == peerId \o "_" \o deviceId
SessionIds == {SessionId(pr[1], pr[2]) : pr \in Pairs}
               \cup {"non-existent-session"}

NoSession == [id |-> "none"]

\* the users: the one of this app, the participant of the open chat, and a
\* third one
Me == "me"
Peer == "p1"
Third == "p2"
\* the device id and the session ids that sendMessage uses
MockDeviceId == "mock-device-id"
Targets == {Peer}
ChatSessionIds == {SessionId(t, MockDeviceId) : t \in Targets}
\* this.sessions with no entry
NoSessions == [s \in SessionIds \cup ChatSessionIds |-> NoSession]
NoStore == [id |-> "null"]
NoPreKeyStore == [stored |-> FALSE, ids |-> {}]
NoRet == [op |-> "none", sid |-> "", at |-> 0, code |-> "none",
          val |-> <<>>]
NoPlain == [kind |-> "none", value |-> <<>>]

\* prekey bundles: identityKey and preKey are a key, empty, or missing
BundleFields == {"key", "", "undefined"}
Bundles == [identityKey : BundleFields, preKey : BundleFields]
\* !preKeyBundle.identityKey || !preKeyBundle.preKey
InvalidBundle(b) ==
  b.identityKey \in {"", "undefined"} \/ b.preKey \in {"", "undefined"}

\* a bundle establishSession accepts
ValidBundle == [identityKey |-> "key", preKey |-> "key"]

\* texts: "Hi", "é€", an emoji (a surrogate pair), a high surrogate alone,
\* and "H" followed by a low surrogate alone
Texts == {<<72, 105>>, <<233, 8364>>, <<55357, 56832>>, <<55357>>,
          <<72, 56832>>}
\* 'text' and 'file'
MessageTypes == {<<116, 101, 120, 116>>, <<102, 105, 108, 101>>}
\* messages: content 'Hi' of type text, and a content with a quote and a
\* high surrogate alone of type file
CryptoMessages ==
  {[content |-> <<72, 105>>, type |-> <<116, 101, 120, 116>>],
   [content |-> <<34, 55357>>, type |-> <<102, 105, 108, 101>>]}
\* the payload a decrypt call is given: what the last encrypt call
\* returned, or a text that no encrypt call returned
PayloadSources == {"cipher", "other"}
Payload(source) == IF source = "cipher" THEN cipher ELSE <<30, 39, 12>>

\* the value returned or thrown by the last call
Ret(op, sid, code, val) ==
  [op |-> op, sid |-> sid, at |-> now, code |-> code, val |-> val]

CMInit ==
  /\ identityKeyPair = 0
  /\ identityStore = 0
  /\ sessions = NoSessions
  /\ sessionStore = NoStore
  /\ preKeys = {}
  /\ preKeyStore = NoPreKeyStore
  /\ now = 0
  /\ cmRet = NoRet
  /\ plain = NoPlain
  /\ cipher = <<>>
  /\ firstIdentity = 0
  /\ issued = {}
  /\ reissued = FALSE

\* time passes
Tick ==
  /\ now < MaxClock
  /\ now' = now + 1
  /\ UNCHANGED <<hubVars, wsVars, ioVars, extVars, identityVars, preKeyVars,
                 sessionVars, cmRet>>

\* the body of generateIdentity for the caller op: a fresh random key pair
\* k is stored (ok: the digests and SecureStore.setItemAsync succeed) and
\* then kept in this.identityKeyPair
GenerateIdentityAs(op, k, ok) ==
  IF ok
    THEN /\ identityStore' = k
         /\ identityKeyPair' = k
         /\ firstIdentity' = IF firstIdentity = 0 THEN k ELSE firstIdentity
         /\ cmRet' = Ret(op, "", "none", k)
    ELSE /\ cmRet' = Ret(op, "", "INVALID_KEY", 0)
         /\ UNCHANGED identityVars

\* generateIdentity()
GenerateIdentity(k, ok) ==
  /\ GenerateIdentityAs("generateIdentity", k, ok)
  /\ UNCHANGED <<hubVars, wsVars, ioVars, extVars, preKeyVars, sessionVars, now>>

\* getIdentityKeyPair(): the cached pair, else the stored one (readOk:
\* SecureStore.getItemAsync succeeds), else generateIdentity()
GetIdentityKeyPair(k, readOk, ok) ==
  /\ IF identityKeyPair # 0
       THEN /\ cmRet' = Ret("getIdentityKeyPair", "", "none", identityKeyPair)
            /\ firstIdentity' =
                 IF firstIdentity = 0 THEN identityKeyPair ELSE firstIdentity
            /\ UNCHANGED <<identityKeyPair, identityStore>>
       ELSE IF readOk /\ identityStore # 0
         THEN /\ identityKeyPair' = identityStore
              /\ cmRet' = Ret("getIdentityKeyPair", "", "none", identityStore)
              /\ firstIdentity' =
                   IF firstIdentity = 0 THEN identityStore ELSE firstIdentity
              /\ UNCHANGED identityStore
         ELSE GenerateIdentityAs("getIdentityKeyPair", k, ok)
  /\ UNCHANGED <<hubVars, wsVars, ioVars, extVars, preKeyVars, sessionVars, now>>

\* `prekey_${Date.now()}_${i}`
PreKeyId(time, i) == <<time, i>>

\* publishPrekeys(count): the ids prekey_<now>_0 .. prekey_<now>_<count-1>
\* are set in this.preKeys, then all entries are stored (ok: the digests
\* and SecureStore.setItemAsync succeed) and the ids returned
PublishPrekeys(count, ok) ==
  LET preKeyIds == [i \in 1..count |-> PreKeyId(now, i - 1)]
      new == {preKeyIds[i] : i \in 1..count}
  IN /\ IF ok
          THEN /\ preKeys' = preKeys \cup new
               /\ preKeyStore' = [stored |-> TRUE, ids |-> preKeys \cup new]
               /\ cmRet' = Ret("publishPrekeys", "", "none", preKeyIds)
               /\ issued' = issued \cup new
               /\ reissued' = (reissued \/ new \cap issued # {})
          ELSE /\ preKeys' = preKeys \cup new
               /\ cmRet' = Ret("publishPrekeys", "", "INVALID_KEY", <<>>)
               /\ UNCHANGED <<preKeyStore, issued, reissued>>
     /\ UNCHANGED <<hubVars, wsVars, ioVars, extVars, identityVars, sessionVars, now>>

\* saveSessions(): the entries of this.sessions are written to the store
\* (SecureStore.setItemAsync succeeds)
SaveSessions(map) == map

\* the session check of establishSession, put after sessions.set
EstablishSessionSetsFirst(peerId, deviceId, b) ==
  LET sessionId == SessionId(peerId, deviceId)
      session == [id |-> sessionId, peerId |-> peerId,
                  deviceId |-> deviceId, state |-> "initialized",
                  createdAt |-> now, lastUsed |-> now]
      map == [sessions EXCEPT ![sessionId] = session]
  IN /\ sessions' = map
     /\ sessionStore' = SaveSessions(map)
     /\ cmRet' = IF InvalidBundle(b)
                   THEN Ret("establishSession", sessionId, "INVALID_KEY",
                            NoSession)
                   ELSE Ret("establishSession", sessionId, "none", session)
     /\ UNCHANGED <<hubVars, wsVars, ioVars, extVars, identityVars, preKeyVars, now,
                    plain, cipher>>

\* establishSession(peerId, deviceId, preKeyBundle)
EstablishSession(peerId, deviceId, b) ==
  LET sessionId == SessionId(peerId, deviceId)
      session == [id |-> sessionId, peerId |-> peerId,
                  deviceId |-> deviceId, state |-> "initialized",
                  createdAt |-> now, lastUsed |-> now]
      map == [sessions EXCEPT ![sessionId] = session]
  IN /\ IF InvalidBundle(b)
          THEN /\ cmRet' = Ret("establishSession", sessionId, "INVALID_KEY",
                               NoSession)
               /\ UNCHANGED <<sessions, sessionStore>>
          ELSE /\ sessions' = map
               /\ sessionStore' = SaveSessions(map)
               /\ cmRet' = Ret("establishSession", sessionId, "none", session)
     /\ UNCHANGED <<hubVars, wsVars, ioVars, extVars, identityVars, preKeyVars, now,
                    plain, cipher>>

\* a decoding that takes every byte for a character
DecryptValueLatin1(payload) == Base64Decode(payload)

\* Buffer.from(text).toString('base64')
EncryptValue(text) == Base64Encode(Utf8Encode(text))
\* Buffer.from(encryptedPayload, 'base64').toString('utf-8')
DecryptValue(payload) == Utf8Decode(Base64Decode(payload))

\* the body of encryptText for the caller op, given what the caller was
\* asked to encrypt (p) and the text it passes on
EncryptTextAs(op, sessionId, p, text) ==
  IF sessions[sessionId] = NoSession
    THEN /\ cmRet' = Ret(op, sessionId, "SESSION_EXPIRED", <<>>)
         /\ UNCHANGED sessionVars
    ELSE LET map == [sessions EXCEPT ![sessionId].lastUsed = now]
         IN /\ sessions' = map
            /\ sessionStore' = SaveSessions(map)
            /\ cmRet' = Ret(op, sessionId, "none", EncryptValue(text))
            /\ plain' = p
            /\ cipher' = EncryptValue(text)

\* encryptText(sessionId, text)
EncryptText(sessionId, text) ==
  /\ EncryptTextAs("encryptText", sessionId,
                   [kind |-> "text", value |-> text], text)
  /\ UNCHANGED <<hubVars, wsVars, ioVars, extVars, identityVars, preKeyVars, now>>

\* encryptMessage(sessionId, message)
EncryptMessage(sessionId, message) ==
  /\ EncryptTextAs("encryptMessage", sessionId,
                   [kind |-> "message", value |-> message],
                   JsonStringify(message))
  /\ UNCHANGED <<hubVars, wsVars, ioVars, extVars, identityVars, preKeyVars, now>>

\* decryptText(sessionId, encryptedPayload)
DecryptText(sessionId, payload) ==
  /\ IF sessions[sessionId] = NoSession
       THEN /\ cmRet' = Ret("decryptText", sessionId, "SESSION_EXPIRED", <<>>)
            /\ UNCHANGED <<sessions, sessionStore>>
       ELSE LET map == [sessions EXCEPT ![sessionId].lastUsed = now]
            IN /\ sessions' = map
               /\ sessionStore' = SaveSessions(map)
               /\ cmRet' = Ret("decryptText", sessionId, "none",
                               DecryptValue(payload))
  /\ UNCHANGED <<hubVars, wsVars, ioVars, extVars, identityVars, preKeyVars, now,
                 plain, cipher>>

\* decryptMessage(sessionId, encryptedPayload): the payload is decoded and
\* parsed, plaintext is set to content; this.sessions is not looked at
DecryptMessage(sessionId, payload) ==
  LET decryptedMessage == JsonParse(DecryptValue(payload))
  IN /\ cmRet' =
          IF decryptedMessage.ok
            THEN Ret("decryptMessage", sessionId, "none",
                     [content |-> Property(decryptedMessage, KeyContent),
                      type |-> Property(decryptedMessage, KeyType),
                      plaintext |-> Property(decryptedMessage, KeyContent)])
            ELSE Ret("decryptMessage", sessionId, "DECRYPTION_FAILED",
                     [content |-> Undefined, type |-> Undefined,
                      plaintext |-> Undefined])
     /\ UNCHANGED <<hubVars, wsVars, ioVars, extVars, identityVars, preKeyVars,
                    sessionVars, now>>

\* loadSessions(): this.sessions is replaced by the stored entries, kept
\* when nothing is stored, and cleared when SecureStore.getItemAsync throws
LoadSessions(readOk) ==
  IF ~readOk THEN NoSessions
  ELSE IF sessionStore = NoStore THEN sessions
  ELSE sessionStore

\* getSession(sessionId)
GetSession(sessionId, readOk) ==
  /\ sessions' = LoadSessions(readOk)
  /\ cmRet' = Ret("getSession", sessionId, "none",
                  LoadSessions(readOk)[sessionId])
  /\ UNCHANGED <<hubVars, wsVars, ioVars, extVars, identityVars, preKeyVars, now,
                 sessionStore, plain, cipher>>

\* removeSession(sessionId)
RemoveSession(sessionId) ==
  LET map == [sessions EXCEPT ![sessionId] = NoSession]
  IN /\ sessions' = map
     /\ sessionStore' = SaveSessions(map)
     /\ cmRet' = Ret("removeSession", sessionId, "none", <<>>)
     /\ UNCHANGED <<hubVars, wsVars, ioVars, extVars, identityVars, preKeyVars, now,
                    plain, cipher>>

\* clearAll(): the three items are deleted one after the other and then the
\* fields are cleared; failAt > 0: that SecureStore.deleteItemAsync throws,
\* which ends the method (the error is ignored)
ClearAll(failAt) ==
  /\ identityStore' = IF failAt = 1 THEN identityStore ELSE 0
  /\ sessionStore' = IF failAt \in {1, 2} THEN sessionStore ELSE NoStore
  /\ preKeyStore' =
       IF failAt \in {1, 2, 3} THEN preKeyStore ELSE NoPreKeyStore
  /\ IF failAt = 0
       THEN /\ identityKeyPair' = 0
            /\ sessions' = NoSessions
            /\ preKeys' = {}
       ELSE UNCHANGED <<identityKeyPair, sessions, preKeys>>
  /\ firstIdentity' = 0
  /\ cmRet' = Ret("clearAll", "", "none", <<>>)
  /\ UNCHANGED <<hubVars, wsVars, ioVars, extVars, now, plain, cipher, issued,
                 reissued>>

\* the app is started again: a new CryptoManager is constructed, the
\* SecureStore items are those the earlier one left
Restart ==
  /\ identityKeyPair' = 0
  /\ sessions' = NoSessions
  /\ preKeys' = {}
  /\ cmRet' = NoRet
  /\ UNCHANGED <<hubVars, wsVars, ioVars, extVars, identityStore, firstIdentity,
                 sessionStore, preKeyStore, now, plain, cipher, issued,
                 reissued>>

\* the identity of the manager
CMIdentityNext ==
  \/ Tick
  \/ Restart
  \/ \E failAt \in 0..3 : ClearAll(failAt)
  \/ \E k \in KeyValues : \E ok \in BOOLEAN : GenerateIdentity(k, ok)
  \/ \E k \in KeyValues : \E readOk, ok \in BOOLEAN :
       GetIdentityKeyPair(k, readOk, ok)

\* the prekeys of the manager
CMPreKeysNext ==
  \/ Tick
  \/ \E failAt \in 0..3 : ClearAll(failAt)
  \/ \E count \in PublishCounts : \E ok \in BOOLEAN :
       PublishPrekeys(count, ok)

\* one text and one message, for the calls whose content does not matter
SampleText == <<72, 105>>
SampleMessage == [content |-> <<72, 105>>, type |-> <<116, 101, 120, 116>>]
\* the pair and the session id the transformations are run on
CodecPair == <<"a", "c">>
CodecSession == SessionId(CodecPair[1], CodecPair[2])

\* the transformations of the manager, on one session and over all texts
\* and messages
CMCodecNext ==
  \/ Tick
  \/ \E b \in Bundles : EstablishSession(CodecPair[1], CodecPair[2], b)
  \/ \E text \in Texts : EncryptText(CodecSession, text)
  \/ \E m \in CryptoMessages : EncryptMessage(CodecSession, m)
  \/ \E source \in PayloadSources :
       DecryptText(CodecSession, Payload(source))
  \/ \E source \in PayloadSources :
       DecryptMessage(CodecSession, Payload(source))

\* establishSession(peerId, deviceId, preKeyBundle) with a valid bundle,
\* when SecureStore.setItemAsync throws in saveSessions: the error is
\* ignored and the store keeps what it held
EstablishSessionUnsaved(peerId, deviceId) ==
  LET sessionId == SessionId(peerId, deviceId)
      session == [id |-> sessionId, peerId |-> peerId,
                  deviceId |-> deviceId, state |-> "initialized",
                  createdAt |-> now, lastUsed |-> now]
  IN /\ sessions' = [sessions EXCEPT ![sessionId] = session]
     /\ cmRet' = Ret("establishSession", sessionId, "none", session)
     /\ UNCHANGED <<hubVars, wsVars, ioVars, extVars, identityVars,
                    preKeyVars, now, sessionStore, plain, cipher>>

\* the sessions of the manager and their record in the store, with writes
\* that fail
CMPersistNext ==
  \/ Tick
  \/ \E pr \in Pairs : EstablishSession(pr[1], pr[2], ValidBundle)
  \/ \E pr \in Pairs : EstablishSessionUnsaved(pr[1], pr[2])
  \/ \E s \in SessionIds : EncryptText(s, SampleText)
  \/ \E s \in SessionIds : \E readOk \in BOOLEAN : GetSession(s, readOk)
  \/ \E s \in SessionIds : RemoveSession(s)

\* the sessions of the manager
CMSessionsNext ==
  \/ Tick
  \/ \E failAt \in 0..3 : ClearAll(failAt)
  \/ \E pr \in Pairs : \E b \in Bundles : EstablishSession(pr[1], pr[2], b)
  \/ \E s \in SessionIds : EncryptText(s, SampleText)
  \/ \E s \in SessionIds : EncryptMessage(s, SampleMessage)
  \/ \E s \in SessionIds : \E source \in PayloadSources :
       DecryptText(s, Payload(source))
  \/ \E s \in SessionIds : \E source \in PayloadSources :
       DecryptMessage(s, Payload(source))
  \/ \E s \in SessionIds : \E readOk \in BOOLEAN : GetSession(s, readOk)
  \/ \E s \in SessionIds : RemoveSession(s)

(***************************************************************************)
(* generateSafetyNumber.  Crypto.digestStringAsync(SHA256, data, BASE64)   *)
(* is a function of data: its result is the text of DigestLen characters   *)
(* whose i-th character is DigestChar(data, i).                            *)
(***************************************************************************)
DigestLen == 44
FingerprintLen == 12
DigestChar(data, i) == <<data, i>>
DigestStringAsync(data) == [i \in 1..DigestLen |-> DigestChar(data, i)]

\* the publicKey of the key pair k
PublicKey(k) == "pk" \o ToString(k)

\* a combined text that also holds the time of the call
CombinedWithClock(publicKey, peerId, deviceId) ==
  publicKey \o "_" \o peerId \o "_" \o deviceId \o "_" \o ToString(now)

\* `${identityKeyPair.publicKey}_${peerId}_${deviceId}`
Combined(publicKey, peerId, deviceId) ==
  publicKey \o "_" \o peerId \o "_" \o deviceId

NoVerification == [safetyNumber |-> <<>>, fingerprint |-> <<>>,
                   isVerified |-> FALSE]

\* the pairs safety numbers are asked for
SafetyPairs == {<<"a", "c">>, <<"a", "b_c">>}

SafetyInit == safetySeen = {}

\* generateSafetyNumber(peerId, deviceId): the identity is the one
\* getIdentityKeyPair() returns (the cached pair, else the stored one, else
\* a new pair k); digestOk: Crypto.digestStringAsync succeeds
GenerateSafetyNumber(peerId, deviceId, k, readOk, ok, digestOk) ==
  LET sessionId == SessionId(peerId, deviceId)
      stored == identityKeyPair = 0 /\ readOk /\ identityStore # 0
      generated == identityKeyPair = 0 /\ ~stored
      id == IF identityKeyPair # 0 THEN identityKeyPair
            ELSE IF stored THEN identityStore
            ELSE IF ok THEN k ELSE 0
      safetyNumber == DigestStringAsync(Combined(PublicKey(id), peerId,
                                                 deviceId))
      fingerprint == SubSeq(safetyNumber, 1, FingerprintLen)
      result == [safetyNumber |-> safetyNumber, fingerprint |-> fingerprint,
                 isVerified |-> FALSE]
  IN /\ IF id = 0
          THEN UNCHANGED identityVars
          ELSE /\ identityKeyPair' = id
               /\ identityStore' = IF generated THEN id ELSE identityStore
               /\ firstIdentity' =
                    IF firstIdentity = 0 THEN id ELSE firstIdentity
     /\ IF id # 0 /\ digestOk
          THEN /\ cmRet' = Ret("generateSafetyNumber", sessionId, "none",
                               result)
               /\ \/ safetySeen # {} /\ UNCHANGED safetySeen
                  \/ safetySeen' =
                       {[at |-> now, identity |-> id, peerId |-> peerId,
                         deviceId |-> deviceId, result |-> result]}
          ELSE /\ cmRet' = Ret("generateSafetyNumber", sessionId,
                               "INVALID_KEY", NoVerification)
               /\ UNCHANGED safetySeen
     /\ UNCHANGED <<hubVars, wsVars, ioVars, preKeyVars, sessionVars, now,
                    chatVars, srvVars>>

\* safety numbers, with identity and session calls in between
CMSafetyNext ==
  \/ Tick
  \/ Restart
  \/ ClearAll(0)
  \/ \E k \in KeyValues : GenerateIdentity(k, TRUE)
  \/ \E pr \in SafetyPairs : \E digestOk \in BOOLEAN :
       \/ /\ identityKeyPair # 0
          /\ GenerateSafetyNumber(pr[1], pr[2], identityKeyPair, TRUE, TRUE,
                                  digestOk)
       \/ /\ identityKeyPair = 0
          /\ \E k \in KeyValues : \E readOk, ok \in BOOLEAN :
               GenerateSafetyNumber(pr[1], pr[2], k, readOk, ok, digestOk)
  \/ EstablishSession(CodecPair[1], CodecPair[2], ValidBundle)
  \/ EncryptText(CodecSession, SampleText)
  \/ RemoveSession(CodecSession)


(***************************************************************************)
(* The chat store (useChatStore) and the handlers that drive it.  Message  *)
(* ids are <<"temp", t>> for `temp_${Date.now()}` and <<"srv", n>> for the *)
(* n-th id the server assigned.                                            *)
(***************************************************************************)
\* sendMessage calls made
MaxSends == 2

NoChat == [type |-> "null"]
NoId == <<"none", 0>>
IdleSend == [pc |-> "idle", tempId |-> NoId, target |-> "", ok |-> FALSE,
             sent |-> NoId, result |-> "none", calls |-> 0]
IdleLoad == [pc |-> "idle", recipient |-> "", group |-> "", ok |-> FALSE,
             snap |-> <<>>]
\* new_message notifications received
MaxInbound == 2
\* receipts of one message counted
MaxDispatch == 2
NoReceiptRet == [op |-> "none", id |-> NoId, failed |-> FALSE,
                 result |-> "none"]

NoUpdate == [op |-> "none", id |-> NoId, updates |-> <<>>, before |-> <<>>]

\* `temp_${Date.now()}`
TempId(time) == <<"temp", time>>
ServerId(n) == <<"srv", n>>

ChatInit ==
  /\ messages = <<>>
  /\ currentChat = NoChat
  /\ chatError = "null"
  /\ send = IdleSend
  /\ load = IdleLoad
  /\ serverMsgs = <<>>
  /\ dispatched = [n \in 1..MaxInbound |-> 0]
  /\ receiptRet = NoReceiptRet
  /\ rendered = <<>>
  /\ lastUpdate = NoUpdate
  /\ notifications = <<>>

\* { ...msg, ...updates }
Spread(msg, updates) ==
  [f \in DOMAIN msg \cup DOMAIN updates |->
     IF f \in DOMAIN updates THEN updates[f] ELSE msg[f]]

\* addMessage(message)
AddMessage(list, message) == Append(list, message)

\* updateMessageStatus(messageId, status)
UpdateMessageStatus(list, messageId, st) ==
  [i \in 1..Len(list) |->
     IF list[i].id = messageId THEN Spread(list[i], [status |-> st])
     ELSE list[i]]

\* updateMessage with every record of the list rewritten
UpdateMessageAll(list, messageId, updates) ==
  [i \in 1..Len(list) |-> Spread(list[i], updates)]

\* updateMessage(messageId, updates)
UpdateMessage(list, messageId, updates) ==
  [i \in 1..Len(list) |->
     IF list[i].id = messageId THEN Spread(list[i], updates) ELSE list[i]]

\* sendMessage(targetId, content, type, false), up to its first await:
\* the temporary id is made and getSession is called
SendMessageCall(targetId) ==
  /\ send.pc = "idle"
  /\ send.calls < MaxSends
  /\ send' = [IdleSend EXCEPT !.pc = "getSession", !.tempId = TempId(now),
                              !.target = targetId, !.calls = send.calls + 1]
  /\ UNCHANGED <<hubVars, wsVars, ioVars, cmVars, safetyVars, srvVars, lastUpdate, notifications, messages,
                 currentChat, chatError, load, serverMsgs, readVars>>

\* getSession(sessionId) returns, and establishSession(targetId, deviceId,
\* mockPreKeyBundle) is called when it returned null
SendGetSession(readOk) ==
  LET sessionId == SessionId(send.target, MockDeviceId)
      loaded == LoadSessions(readOk)
      session == [id |-> sessionId, peerId |-> send.target,
                  deviceId |-> MockDeviceId, state |-> "initialized",
                  createdAt |-> now, lastUsed |-> now]
      map == [loaded EXCEPT ![sessionId] = session]
  IN /\ send.pc = "getSession"
     /\ IF loaded[sessionId] = NoSession
          THEN /\ sessions' = map
               /\ sessionStore' = SaveSessions(map)
               /\ cmRet' = Ret("establishSession", sessionId, "none", session)
          ELSE /\ sessions' = loaded
               /\ cmRet' = Ret("getSession", sessionId, "none",
                               loaded[sessionId])
               /\ UNCHANGED sessionStore
     /\ send' = [send EXCEPT !.pc = "encrypt"]
     /\ UNCHANGED <<hubVars, wsVars, ioVars, identityVars, preKeyVars, now,
                    plain, cipher, safetyVars, srvVars, lastUpdate, notifications, messages, currentChat,
                    chatError, load, serverMsgs, readVars>>

\* encryptMessage(session.id, message) returns or throws: when it returns
\* the temporary record is added with status 'sending', the message is
\* encrypted once more and submitted; when it throws the catch block runs
SendEncrypt ==
  LET sessionId == SessionId(send.target, MockDeviceId)
      map == [sessions EXCEPT ![sessionId].lastUsed = now]
      tempMessage == [id |-> send.tempId, sender_id |-> Me,
                      recipient_id |-> send.target,
                      group_id |-> "undefined", status |-> "sending"]
  IN /\ send.pc = "encrypt"
     /\ IF sessions[sessionId] = NoSession
          THEN /\ cmRet' = Ret("encryptMessage", sessionId,
                               "SESSION_EXPIRED", <<>>)
               /\ messages' = UpdateMessage(messages, send.tempId,
                                            [status |-> "failed"])
               /\ chatError' = "Session not found"
               /\ send' = [send EXCEPT !.pc = "idle", !.result = "rejected"]
               /\ UNCHANGED <<sessions, sessionStore>>
          ELSE /\ sessions' = map
               /\ sessionStore' = SaveSessions(map)
               /\ cmRet' = Ret("encryptMessage", sessionId, "none", <<>>)
               /\ messages' = AddMessage(messages, tempMessage)
               /\ send' = [send EXCEPT !.pc = "submit"]
               /\ UNCHANGED chatError
     /\ UNCHANGED <<hubVars, wsVars, ioVars, identityVars, preKeyVars, now,
                    plain, cipher, safetyVars, srvVars, lastUpdate, notifications, currentChat, load, serverMsgs,
                    readVars>>

\* the server handles POST /messages: the message is stored under a new
\* id (ok), or the request fails
Submit(ok) ==
  LET id == ServerId(Len(serverMsgs) + 1)
      stored == [id |-> id, sender_id |-> Me, recipient_id |-> send.target,
                 group_id |-> "undefined"]
  IN /\ send.pc = "submit"
     /\ IF ok
          THEN /\ serverMsgs' = Append(serverMsgs, stored)
               /\ send' = [send EXCEPT !.pc = "response", !.ok = TRUE,
                                       !.sent = id]
          ELSE /\ send' = [send EXCEPT !.pc = "response", !.ok = FALSE]
               /\ UNCHANGED serverMsgs
     /\ UNCHANGED <<hubVars, wsVars, ioVars, cmVars, safetyVars, srvVars, lastUpdate, notifications, messages,
                    currentChat, chatError, load, readVars>>

\* apiService.sendMessage returns or throws, and sendMessage ends
SendMessageReturn ==
  LET sentMessage == [id |-> send.sent, sender_id |-> Me,
                      recipient_id |-> send.target,
                      group_id |-> "undefined"]
  IN /\ send.pc = "response"
     /\ IF send.ok
          THEN /\ messages' =
                    UpdateMessage(messages, send.tempId,
                                  sentMessage @@ [status |-> "sent"])
               /\ send' = [send EXCEPT !.pc = "idle", !.result = "resolved"]
               /\ UNCHANGED chatError
          ELSE /\ messages' = UpdateMessage(messages, send.tempId,
                                            [status |-> "failed"])
               /\ chatError' = "Failed to send message"
               /\ send' = [send EXCEPT !.pc = "idle", !.result = "rejected"]
     /\ UNCHANGED <<hubVars, wsVars, ioVars, cmVars, safetyVars, srvVars, lastUpdate, notifications, currentChat,
                    load, serverMsgs, readVars>>

\* the chats setCurrentChat is called with
DmChat(participant) ==
  [type |-> "dm", id |-> participant, participant |-> participant]
GroupChat(id) == [type |-> "group", id |-> id, participant |-> "undefined"]

\* setCurrentChat(chat) with a DM or a group chat: loadMessages is called
\* with the participant's id or the group's id and runs up to its request
SetCurrentChat(chat) ==
  /\ load.pc = "idle"
  /\ currentChat' = chat
  /\ chatError' = "null"
  /\ load' = [IdleLoad EXCEPT
                !.pc = "request",
                !.recipient = IF chat.type = "dm" THEN chat.participant
                              ELSE "undefined",
                !.group = IF chat.type = "group" THEN chat.id
                          ELSE "undefined"]
  /\ UNCHANGED <<hubVars, wsVars, ioVars, cmVars, safetyVars, srvVars, lastUpdate, notifications, messages, send,
                 serverMsgs, readVars>>

\* setCurrentChat(null): clearMessages()
SetCurrentChatNull ==
  /\ currentChat' = NoChat
  /\ messages' = <<>>
  /\ UNCHANGED <<hubVars, wsVars, ioVars, cmVars, safetyVars, srvVars, lastUpdate, notifications, chatError, send,
                 load, serverMsgs, readVars>>

\* the messages of the group, or of the conversation between this user
\* and recipient
Conversation(list, recipient, group) ==
  SelectSeq(list, LAMBDA m :
    IF group # "undefined" THEN m.group_id = group
    ELSE \/ m.sender_id = Me /\ m.recipient_id = recipient
         \/ m.sender_id = recipient /\ m.recipient_id = Me)

\* the server handles GET /messages?recipient_id=...
LoadFetch(ok) ==
  /\ load.pc = "request"
  /\ load' = [load EXCEPT !.pc = "response", !.ok = ok,
                !.snap = IF ok THEN Conversation(serverMsgs, load.recipient,
                                             load.group)
                         ELSE <<>>]
  /\ UNCHANGED <<hubVars, wsVars, ioVars, cmVars, safetyVars, srvVars, lastUpdate, notifications, messages,
                 currentChat, chatError, send, serverMsgs, readVars>>

\* the messages loadMessages puts in the store: those of this user get
\* status 'delivered'
ProcessedMessages(list) ==
  [i \in 1..Len(list) |->
     list[i] @@ [status |-> IF list[i].sender_id = Me THEN "delivered"
                            ELSE "undefined"]]

\* apiService.getMessages returns or throws, and loadMessages ends
LoadMessagesReturn ==
  /\ load.pc = "response"
  /\ IF load.ok
       THEN /\ messages' = ProcessedMessages(load.snap)
            /\ UNCHANGED chatError
       ELSE /\ chatError' = "Failed to load messages"
            /\ UNCHANGED messages
  /\ load' = IdleLoad
  /\ UNCHANGED <<hubVars, wsVars, ioVars, cmVars, safetyVars, srvVars, lastUpdate, notifications, currentChat,
                 send, serverMsgs, readVars>>

ReceiptTypes == {"delivered", "read"}

\* onMessage with a 'message_receipt' for a message of this user that the
\* server has stored
OnMessageReceipt(n, type) ==
  /\ n \in 1..Len(serverMsgs)
  /\ serverMsgs[n].sender_id = Me
  /\ messages' = IF type \in ReceiptTypes
                   THEN UpdateMessageStatus(messages, ServerId(n), type)
                   ELSE messages
  /\ UNCHANGED <<hubVars, wsVars, ioVars, cmVars, safetyVars, srvVars, lastUpdate, notifications, currentChat,
                 chatError, send, load, serverMsgs, readVars>>

\* sending, receipts and reloads of the open conversation; clearAll is the
\* logout
ChatSendNext ==
  \/ Tick
  \/ ClearAll(0)
  \/ \E t \in Targets : SendMessageCall(t)
  \/ \E readOk \in BOOLEAN : SendGetSession(readOk)
  \/ SendEncrypt
  \/ \E ok \in BOOLEAN : Submit(ok)
  \/ SendMessageReturn
  \/ \E t \in Targets : SetCurrentChat(DmChat(t))
  \/ SetCurrentChatNull
  \/ \E ok \in BOOLEAN : LoadFetch(ok)
  \/ LoadMessagesReturn
  \/ \E n \in 1..MaxSends : \E type \in ReceiptTypes : OnMessageReceipt(n, type)


\* the chats that can be open, and the sender and the group ("undefined"
\* for a direct message) of the messages that arrive
Chats == {DmChat(Peer), DmChat(Third), GroupChat("g1")}
Inbound == {<<Peer, "undefined">>, <<Third, "undefined">>, <<Peer, "g1">>,
            <<Third, "g2">>}

\* the test of onMessage for a 'new_message'
BelongsAlways(chat, incomingMessage) == TRUE
Belongs(chat, incomingMessage) ==
  \/ /\ chat.type = "dm"
     /\ chat.participant # "undefined"
     /\ incomingMessage.sender_id = chat.participant
  \/ /\ chat.type = "group"
     /\ incomingMessage.group_id = chat.id

\* the server has stored a message of sender for this user (group
\* "undefined") or for a group this user is a member of, and onMessage
\* runs with its 'new_message'
OnNewMessage(sender, group) ==
  LET incomingMessage ==
        [id |-> ServerId(Len(serverMsgs) + 1), sender_id |-> sender,
         recipient_id |-> IF group = "undefined" THEN Me ELSE "undefined",
         group_id |-> group]
  IN /\ Len(serverMsgs) < MaxInbound
     /\ serverMsgs' = Append(serverMsgs, incomingMessage)
     /\ messages' =
          IF Belongs(currentChat, incomingMessage)
            THEN AddMessage(messages,
                            incomingMessage @@ [status |-> "undefined"])
            ELSE messages
     /\ UNCHANGED <<hubVars, wsVars, ioVars, cmVars, safetyVars, srvVars, lastUpdate, notifications, currentChat,
                    chatError, send, load, readVars>>

\* the ids the unread effect of ChatScreen passes to markMessagesAsRead
UnreadMessageIds(list, participant) ==
  LET unread == SelectSeq(list, LAMBDA msg :
                  /\ msg.sender_id = participant
                  /\ msg.recipient_id = Me
                  /\ msg.status # "read")
  IN [i \in 1..Len(unread) |-> unread[i].id]

\* the effect of ChatScreen that runs when messages has changed, with its
\* call markMessagesAsRead(unreadMessageIds): one receipt of type 'read' is
\* dispatched for each id; ok: every apiService.sendReceipt succeeds
UnreadEffect(ok) ==
  LET ids == UnreadMessageIds(messages, currentChat.participant)
      sent == {ids[i][2] : i \in 1..Len(ids)}
      Plus(c) == IF c < MaxDispatch THEN c + 1 ELSE c
  IN /\ currentChat.type = "dm"
     /\ rendered # messages
     /\ rendered' = messages
     /\ IF Len(ids) > 0
          THEN /\ dispatched' = [n \in DOMAIN dispatched |->
                                   IF n \in sent THEN Plus(dispatched[n])
                                   ELSE dispatched[n]]
               /\ receiptRet' = [op |-> "markMessagesAsRead", id |-> ids[1],
                                 failed |-> ~ok, result |-> "resolved"]
          ELSE UNCHANGED <<dispatched, receiptRet>>
     /\ UNCHANGED <<hubVars, wsVars, ioVars, cmVars, safetyVars, srvVars, lastUpdate, notifications, messages,
                    currentChat, chatError, send, load, serverMsgs>>

\* a receipt call that sets the error of the store when the dispatch fails
MarkMessageAsSurfaces(op, n, ok) ==
  /\ n \in 1..Len(serverMsgs)
  /\ receiptRet' = [op |-> op, id |-> ServerId(n), failed |-> ~ok,
                    result |-> IF ok THEN "resolved" ELSE "rejected"]
  /\ messages' = UpdateMessage(messages, ServerId(n), <<>>)
  /\ chatError' = IF ok THEN chatError ELSE "Failed to send receipt"
  /\ UNCHANGED <<hubVars, wsVars, ioVars, cmVars, safetyVars, srvVars, lastUpdate, notifications, currentChat,
                 send, load, serverMsgs, dispatched, rendered>>

\* markMessageAsRead(messageId) and markMessageAsDelivered(messageId), op
\* being the one called: the receipt is dispatched and, when that
\* succeeded (ok), updateMessage(messageId, {}) is called
MarkMessageAs(op, n, ok) ==
  /\ n \in 1..Len(serverMsgs)
  /\ receiptRet' = [op |-> op, id |-> ServerId(n), failed |-> ~ok,
                    result |-> "resolved"]
  /\ messages' = IF ok THEN UpdateMessage(messages, ServerId(n), <<>>)
                 ELSE messages
  /\ UNCHANGED <<hubVars, wsVars, ioVars, cmVars, safetyVars, srvVars, lastUpdate, notifications, currentChat,
                 chatError, send, load, serverMsgs, dispatched, rendered>>

MarkOps == {"markMessageAsRead", "markMessageAsDelivered"}

\* inbound messages of the open conversation and their read receipts
ChatReadNext ==
  \/ \E chat \in Chats : SetCurrentChat(chat)
  \/ SetCurrentChatNull
  \/ \E ok \in BOOLEAN : LoadFetch(ok)
  \/ LoadMessagesReturn
  \/ \E in \in Inbound : OnNewMessage(in[1], in[2])
  \/ UnreadEffect(TRUE)

\* the receipt calls, with receipts that fail
ChatReceiptsNext ==
  \/ SetCurrentChat(DmChat(Peer))
  \/ SetCurrentChatNull
  \/ \E ok \in BOOLEAN : LoadFetch(ok)
  \/ LoadMessagesReturn
  \/ OnNewMessage(Peer, "undefined")
  \/ \E ok \in BOOLEAN : UnreadEffect(ok)
  \/ \E op \in MarkOps : \E n \in 1..MaxInbound : \E ok \in BOOLEAN :
       MarkMessageAs(op, n, ok)

\* the ids and the updates updateMessage is called with: a change of
\* status, and a new id with a status
UpdateIds == {ServerId(1), ServerId(2), TempId(0)}
Updates == {[status |-> "failed"], [id |-> ServerId(2), status |-> "sent"]}

\* useChatStore.getState().updateMessage(messageId, updates)
UpdateMessageCall(messageId, updates) ==
  /\ messages' = UpdateMessage(messages, messageId, updates)
  /\ lastUpdate' = [op |-> "updateMessage", id |-> messageId,
                    updates |-> updates, before |-> messages]
  /\ UNCHANGED <<hubVars, wsVars, ioVars, cmVars, safetyVars, srvVars,
                 currentChat, chatError, send, load, serverMsgs, readVars,
                 notifications>>

\* updateMessage on the lists that loads and arriving messages make
ChatUpdateNext ==
  \/ SetCurrentChat(DmChat(Peer))
  \/ SetCurrentChatNull
  \/ \E ok \in BOOLEAN : LoadFetch(ok)
  \/ LoadMessagesReturn
  \/ OnNewMessage(Peer, "undefined")
  \/ \E id \in UpdateIds : \E u \in Updates : UpdateMessageCall(id, u)

\* SendMessage of the server for a direct message of sender to this user:
\* the message is inserted into the messages table and the 'new_message'
\* notification is handed to the hub
StoreInbound(sender) ==
  LET message == [id |-> ServerId(Len(serverMsgs) + 1), sender_id |-> sender,
                  recipient_id |-> Me, group_id |-> "undefined"]
  IN /\ Len(serverMsgs) < MaxInbound
     /\ serverMsgs' = Append(serverMsgs, message)
     /\ notifications' = Append(notifications, message)
     /\ UNCHANGED <<hubVars, wsVars, ioVars, cmVars, safetyVars, srvVars,
                    messages, currentChat, chatError, send, load, readVars,
                    lastUpdate>>

\* onMessage runs with the oldest 'new_message' notification in flight
DeliverNewMessage ==
  /\ notifications # <<>>
  /\ notifications' = Tail(notifications)
  /\ messages' =
       IF Belongs(currentChat, Head(notifications))
         THEN AddMessage(messages,
                         Head(notifications) @@ [status |-> "undefined"])
         ELSE messages
  /\ UNCHANGED <<hubVars, wsVars, ioVars, cmVars, safetyVars, srvVars,
                 currentChat, chatError, send, load, serverMsgs, readVars,
                 lastUpdate>>

\* loads, arriving messages and sends of the open conversation
ChatListNext ==
  \/ Tick
  \/ SetCurrentChat(DmChat(Peer))
  \/ SetCurrentChatNull
  \/ \E ok \in BOOLEAN : LoadFetch(ok)
  \/ LoadMessagesReturn
  \/ StoreInbound(Peer)
  \/ DeliverNewMessage
  \/ SendMessageCall(Peer)
  \/ SendGetSession(TRUE)
  \/ SendEncrypt
  \/ \E ok \in BOOLEAN : Submit(ok)
  \/ SendMessageReturn

(***************************************************************************)
(* The server's SendReceipt handler.  The receipts table is the set of its *)
(* rows; hub.SendToUser is the count of notifications handed to the hub    *)
(* for one (message, user, type).                                          *)
(***************************************************************************)
\* the messages of the messages table, the authenticated users that send
\* receipts and the (message_id, user_id, type) triples they send
StoredMessages == {ServerId(1), ServerId(2)}
ReceiptUsers == {Peer}
ReceiptKeys == StoredMessages \X ReceiptUsers \X ReceiptTypes
NoSrvRet == [status |-> 0, key |-> <<NoId, "none", "none">>]

SrvInit ==
  /\ receipts = {}
  /\ notified = [k \in ReceiptKeys |-> 0]
  /\ srvRet = NoSrvRet

\* UNIQUE(message_id, user_id, type): the row the insert would conflict with
Conflicts(table, key) ==
  {r \in table : <<r.message_id, r.user_id, r.type>> = key}

\* INSERT ... ON CONFLICT (message_id, user_id, type) DO NOTHING
InsertReceipt(table, key) ==
  IF Conflicts(table, key) # {} THEN table
  ELSE table \cup {[id |-> Cardinality(table) + 1, message_id |-> key[1],
                    user_id |-> key[2], type |-> key[3]]}

\* SendReceipt(w, r) for the body {message_id, type} of user userId.
\* parseOk: uuid.Parse succeeds; dbOk: the insert returns no error;
\* found: the SELECT of the message's sender returns a row
SendReceipt(messageID, userId, type, parseOk, dbOk, found) ==
  LET key == <<messageID, userId, type>>
  IN /\ IF ~parseOk
          THEN /\ srvRet' = [status |-> 400, key |-> key]
               /\ UNCHANGED <<receipts, notified>>
          ELSE IF ~dbOk
          THEN /\ srvRet' = [status |-> 500, key |-> key]
               /\ UNCHANGED <<receipts, notified>>
          ELSE /\ receipts' = InsertReceipt(receipts, key)
               /\ IF found
                    THEN /\ notified[key] < MaxDispatch
                         /\ notified' = [notified EXCEPT ![key] = @ + 1]
                    ELSE UNCHANGED notified
               /\ srvRet' = [status |-> 200, key |-> key]
     /\ UNCHANGED <<hubVars, wsVars, ioVars, cmVars, safetyVars, chatVars>>

SrvReceiptsNext ==
  \E key \in ReceiptKeys : \E parseOk, dbOk, found \in BOOLEAN :
    SendReceipt(key[1], key[2], key[3], parseOk, dbOk, found)

ExtInit == SafetyInit /\ ChatInit /\ SrvInit

vars == <<hubVars, appVars>>
Init == HubInit /\ WSInit /\ CMInit /\ ExtInit
SpecHub == Init /\ [][HubNext]_vars
SpecWS == Init /\ [][WSNext]_vars
\* a timeout set with setTimeout fires unless clearTimeout is called first
SpecWSLive == Init /\ [][WSNext]_vars /\ WF_vars(ReconnectTimerFires)
SpecWSIn == Init /\ [][WSInNext]_vars
SpecWSOut == Init /\ [][WSOutNext]_vars
SpecCMIdentity == Init /\ [][CMIdentityNext]_vars
SpecCMPreKeys == Init /\ [][CMPreKeysNext]_vars
SpecCMSessions == Init /\ [][CMSessionsNext]_vars
SpecCMCodec == Init /\ [][CMCodecNext]_vars
SpecCMSafety == Init /\ [][CMSafetyNext]_vars
SpecChatSend == Init /\ [][ChatSendNext]_vars
SpecChatRead == Init /\ [][ChatReadNext]_vars
SpecChatReceipts == Init /\ [][ChatReceiptsNext]_vars
SpecSrvReceipts == Init /\ [][SrvReceiptsNext]_vars
SpecChatUpdate == Init /\ [][ChatUpdateNext]_vars
SpecChatList == Init /\ [][ChatListNext]_vars
SpecCMPersist == Init /\ [][CMPersistNext]_vars

(***************************************************************************)
(* Properties of the Hub                                                   *)
(***************************************************************************)
\* the connections h.userClients holds for a user
Bucket(u) == IF userClients[u] = 0 THEN {} ELSE buckets[userClients[u]]

\* number of close(client.send) executed on a connection's queue
CloseCalls(c) ==
  IF closedBy[c] = "open" THEN 0
  ELSE IF panicked.kind = "close of closed channel" /\ panicked.client = c
         THEN 2
         ELSE 1

\* no Hub operation is in progress
HubQuiescent ==
  /\ Running
  /\ runPc = "select"
  /\ \A s \in Senders : spc[s] = "idle"

C1_OnlyOwnUser ==
  \A s \in Senders : \A c \in Clients :
    sSent[s][c] # <<>> =>
      /\ userID(c) = sUser[s]
      /\ sSent[s][c] = <<Marshal(sMsg[s])>>

\* the select on a connection whose queue is open: one copy is enqueued
\* when the queue has room, nothing is enqueued and the drop begins when
\* it is full; no other queue changes
C1_SelectStep ==
  \A s \in Senders :
    (spc[s] = "select" /\ spc'[s] # "select") =>
      LET c == sCur[s]
      IN /\ \A d \in Clients \ {c} : queue'[d] = queue[d]
         /\ IF Len(queue[c]) < SendBuf
              THEN /\ queue'[c] = Append(queue[c], Marshal(sMsg[s]))
                   /\ sSent'[s][c] = <<Marshal(sMsg[s])>>
                   /\ spc'[s] = "range"
              ELSE /\ queue'[c] = queue[c]
                   /\ sSent'[s][c] = <<>>
                   /\ spc'[s] = "drop_close"

\* the drop of a full connection ends with its queue closed and the
\* connection in neither h.clients nor the user's bucket
C1_DropStep ==
  \A s \in Senders :
    (spc[s] = "drop_lock" /\ spc'[s] = "range") =>
      /\ closedBy'[sCur[s]] = "SendToUser"
      /\ sCur[s] \notin clients'
      /\ userClients'[sUser[s]] # 0 =>
           sCur[s] \notin buckets'[userClients'[sUser[s]]]

\* the call returns only when it has dealt with every connection that was
\* in the bucket from the lookup on
C1_Return ==
  \A s \in Senders :
    (spc[s] = "range" /\ spc'[s] = "idle") =>
      (sSnap[s] \cap buckets[sRef[s]]) \subseteq sVisited[s]

C2_NoSendOnUnregisteredQueue ==
  ~ /\ panicked.kind = "send on closed channel"
    /\ panicked.by \in {"SendToUser", "Run.broadcast"}
    /\ closedBy[panicked.client] = "Run.unregister"

\* C3: over all teardown paths a connection's outbound queue is closed at
\* most once.
C3_QueueClosedAtMostOnce == \A c \in Clients : CloseCalls(c) <= 1

\* C4: when no Hub operation is in progress a connection is in its user's
\* bucket iff it is in h.clients, and a connection that was removed has its
\* queue closed.
C4_IndexMatchesLiveSet ==
  HubQuiescent =>
    \A c \in Clients :
      /\ c \in clients <=> c \in Bucket(userID(c))
      /\ (rp[c] # "new" /\ c \notin clients) => closedBy[c] # "open"

\* C5: only Hub.Run writes h.clients, every access to h.userClients and to
\* its inner maps is made under userMutex, and no two goroutines are about
\* to touch the same map, one of them writing, without the lock.
C5_SingleWriterLockedIndex ==
  /\ \A s \in Senders : \A a \in SenderAccess(s) :
       /\ ~(a.loc = "clients" /\ a.write)
       /\ a.loc \in {"index", "bucket"} => a.locked
  /\ \A a \in RunAccess : a.loc \in {"index", "bucket"} => a.locked
  /\ ~DataRace

\* the steps of one SendToUser call after its lookup, and of the broadcast
\* loop
FanoutStep(s) ==
  \/ SendToUserRange(s)
  \/ SendToUserSelect(s)
  \/ SendToUserClose(s)
  \/ SendToUserDelete(s)
  \/ SendToUserIndex(s)
BroadcastStep ==
  \/ RunBroadcastRange
  \/ RunBroadcastSelect
  \/ RunBroadcastClose
  \/ RunBroadcastDelete

\* a fan-out in progress can always take its next step, whatever the state
\* of the queues (it never waits for a receiver)
FanoutNeverWaits ==
  Running =>
    /\ \A s \in Senders : spc[s] # "idle" => ENABLED FanoutStep(s)
    /\ runPc \in {"broadcast_range", "broadcast_select", "broadcast_close",
                  "broadcast_delete"} => ENABLED BroadcastStep

\* C6: SendToUser and the broadcast step always complete: each fan-out step
\* can be taken without waiting and either enqueues or drops the
\* connection, it does not end the process.
C6_FanoutCompletes ==
  /\ FanoutNeverWaits
  /\ panicked.by \notin {"SendToUser", "Run.broadcast"}

(***************************************************************************)
(* Properties of the Connection Manager                                    *)
(***************************************************************************)
\* the sockets that are connecting or open, all with the service's
\* handlers attached
LiveSockets == {k \in SockIds : sock[k] \in {"connecting", "open"}}

\* C7: after maxReconnectAttempts consecutive abnormal closures no further
\* reconnect is scheduled and the 'error' status has been emitted to the
\* caller exactly once.
C7_StopsWithOneError ==
  closures >= MaxReconnectAttempts =>
    /\ reconnectTimer.state # "pending"
    /\ errorEmits = 1

\* C8: from disconnect() until the next connect() no reconnect timer and no
\* ping timer is pending and no connection attempt is made, whatever
\* events the sockets deliver.
C8_DisconnectIsTerminal ==
  intent = "down" =>
    /\ reconnectTimer.state # "pending"
    /\ ~pingTimer
    /\ LiveSockets = {}

\* C9: at most one socket of the service is connecting or open.
C9_AtMostOneLiveSocket == Cardinality(LiveSockets) <= 1

\* C10: the timeout of the k-th reconnect scheduled since the last connect()
\* or open has the delay min(1000 * 2^(k-1), 30000), and an open event
\* puts reconnectAttempts back to 0 and reconnectDelay back to 1000.
C10_BackoffDelay ==
  /\ [](reconnectTimer.state = "pending" =>
          reconnectTimer.delay =
            Min(1000 * 2^(reconnectTimer.attempt - 1), 30000))
  /\ [][(\E k \in SockIds : SockOpen(k)) =>
          (reconnectAttempts' = 0 /\ reconnectDelay' = 1000)]_vars

\* C10's case: the fifth consecutive reconnect is pending
C10_Witness ==
  /\ reconnectTimer.state = "pending"
  /\ reconnectTimer.attempt = 5
  /\ reconnectTimer.delay = 16000
  /\ closures = 5

\* C11: the ping timer is armed only while the status is 'connected', and
\* never while a reconnect timer is pending or a socket is connecting.
C11_HeartbeatOnlyWhileConnected ==
  pingTimer =>
    /\ status = "connected"
    /\ reconnectTimer.state # "pending"
    /\ \A k \in SockIds : sock[k] # "connecting"

\* the text of a frame says it is a pong / an object that is no pong
IsPong(d) == d = "{\"type\":\"pong\"}"
IsOtherObject(d) == d \in {"{\"type\":\"new_message\"}", "{}"}

\* C12: a pong frame is not passed to onMessage, and every other frame that
\* is a JSON object is passed to onMessage exactly once, as parsed.
C12_PongNeverForwarded ==
  /\ IsPong(inData) => forwarded = <<>>
  /\ IsOtherObject(inData) =>
       /\ Len(forwarded) = 1
       /\ forwarded[1] = JSONParse(inData)
       /\ msgErrors = 0

\* C12's case: a new_message frame was forwarded
C12_Witness ==
  /\ inData = "{\"type\":\"new_message\"}"
  /\ forwarded = <<[kind |-> "object", type |-> "new_message"]>>

\* C13: send(message) hands the message to the socket only if this.ws is
\* open at the call; otherwise it changes nothing of the service and
\* nothing on the wire, and a message refused so is never on the wire
\* later.
C13_SendOnlyWhenOpen ==
  /\ [][\A m \in OutMsgs : SendCall(m) =>
          /\ UNCHANGED wsVars
          /\ IF ws # 0 /\ sock[ws] = "open"
               THEN wire' = wire \cup {Stringify(m)}
               ELSE wire' = wire]_vars
  /\ [](\A m \in refused : Stringify(m) \notin wire)

\* C13's case: a message was refused while not connected, and after the
\* reconnect another message went out on the open socket
C13_Witness ==
  /\ "message_received" \in refused
  /\ wire = {Stringify("message_read")}
  /\ ws # 0 /\ sock[ws] = "open"
  /\ scheduled = 0 /\ errorEmits > 0

(***************************************************************************)
(* Properties of the CryptoManager                                         *)
(***************************************************************************)
\* a text in which every surrogate has its partner
\* the code unit at i is a surrogate without its partner
LoneSurrogate(s, i) ==
  \/ /\ s[i] \in HighSurrogates
     /\ ~(i < Len(s) /\ s[IF i < Len(s) THEN i + 1 ELSE i] \in LowSurrogates)
  \/ /\ s[i] \in LowSurrogates
     /\ ~(i > 1 /\ s[IF i > 1 THEN i - 1 ELSE i] \in HighSurrogates)

WellFormedText(s) == \A i \in 1..Len(s) : ~LoneSurrogate(s, i)

\* s with U+FFFD in the place of every surrogate without its partner
ToWellFormed(s) ==
  [i \in 1..Len(s) |-> IF LoneSurrogate(s, i) THEN ReplacementChar ELSE s[i]]

\* decryptText of what encryptText has just returned, on the same session
TextRoundTrip(s) ==
  /\ cmRet.op = "encryptText"
  /\ cmRet.code = "none"
  /\ cmRet.sid = s
  /\ cmRet'.op = "decryptText"
  /\ DecryptText(s, cmRet.val)

\* decryptMessage of what encryptMessage has just returned, on the same
\* session
MessageRoundTrip(s) ==
  /\ cmRet.op = "encryptMessage"
  /\ cmRet.code = "none"
  /\ cmRet.sid = s
  /\ cmRet'.op = "decryptMessage"
  /\ DecryptMessage(s, cmRet.val)

\* the message round trip returns the content and the type it was given
MessageRecovered ==
  /\ cmRet'.code = "none"
  /\ cmRet'.val.content = plain.value.content
  /\ cmRet'.val.type = plain.value.type

\* C14 as stated: on an established session decryptText(encryptText(t)) = t
\* for every text t, and decryptMessage(encryptMessage(m)) agrees with m on
\* content and type for every message m.
C14_RoundTripEveryText ==
  [][\A s \in SessionIds :
       /\ TextRoundTrip(s) =>
            (cmRet'.code = "none" /\ cmRet'.val = plain.value)
       /\ MessageRoundTrip(s) => MessageRecovered]_vars

\* C14 as amended: on an established session decryptText(encryptText(t)) is
\* t with U+FFFD in the place of every surrogate that stands without its
\* partner, so it is t for every text t without such a surrogate, and
\* decryptMessage(encryptMessage(m)) agrees with m on content and type for
\* every message m.
C14_RoundTripWellFormed ==
  [][\A s \in SessionIds :
       /\ TextRoundTrip(s) =>
            /\ cmRet'.code = "none"
            /\ cmRet'.val = ToWellFormed(plain.value)
            /\ WellFormedText(plain.value) => cmRet'.val = plain.value
       /\ MessageRoundTrip(s) => MessageRecovered]_vars

\* C14's case: a message whose content holds a quote and a lone surrogate
\* was encrypted and decrypted again
C14_Witness ==
  /\ cmRet.op = "decryptMessage"
  /\ cmRet.code = "none"
  /\ plain.kind = "message"
  /\ plain.value.content = <<34, 55357>>
  /\ cmRet.val.content = <<34, 55357>>
  /\ cmRet.val.type = <<102, 105, 108, 101>>
  /\ sessions[cmRet.sid] # NoSession

CryptOps == {"encryptText", "decryptText", "encryptMessage", "decryptMessage"}

\* C15: an encrypt or decrypt call with a session id that has no session
\* fails with the session-not-found error.
C15_NoSessionAlwaysRejected ==
  (cmRet.op \in CryptOps /\ sessions[cmRet.sid] = NoSession)
    => cmRet.code = "SESSION_EXPIRED"

\* C16: establishSession with a bundle whose identityKey or preKey is empty
\* or missing fails with INVALID_KEY and changes neither this.sessions nor
\* the stored sessions.
C16_InvalidBundleChangesNothing ==
  [][\A pr \in Pairs : \A b \in Bundles :
       (/\ cmRet'.op = "establishSession"
        /\ EstablishSession(pr[1], pr[2], b)
        /\ (b.identityKey # "key" \/ b.preKey # "key"))
       => /\ cmRet'.code = "INVALID_KEY"
          /\ UNCHANGED <<sessions, sessionStore>>]_vars

\* C16's case: a call with an invalid bundle was rejected and the session
\* established earlier for the same pair is as it was
C16_Witness ==
  /\ cmRet.op = "establishSession"
  /\ cmRet.code = "INVALID_KEY"
  /\ sessions[cmRet.sid] # NoSession
  /\ sessions[cmRet.sid].createdAt < cmRet.at
  /\ sessionStore = sessions

\* the session this.sessions holds for a pair: the one stored under the
\* pair's session id, if it is a session of that pair
SessionOf(map, pr) ==
  LET s == map[SessionId(pr[1], pr[2])]
  IN IF s # NoSession /\ s.peerId = pr[1] /\ s.deviceId = pr[2]
       THEN s ELSE NoSession

\* C17: a successful establishSession(peer, device, bundle) leaves the
\* session it made as the session of (peer, device), in state 'initialized',
\* and leaves the session of every other pair as it was.
C17_LastEstablishWins ==
  [][\A pr \in Pairs : \A b \in Bundles :
       (/\ cmRet'.op = "establishSession"
        /\ EstablishSession(pr[1], pr[2], b)
        /\ cmRet'.code = "none")
       => /\ SessionOf(sessions', pr) = cmRet'.val
          /\ cmRet'.val.state = "initialized"
          /\ cmRet'.val.createdAt = now
          /\ \A other \in Pairs \ {pr} :
               SessionOf(sessions', other) = SessionOf(sessions, other)]_vars

\* C18: after a successful encrypt or decrypt call the session's lastUsed
\* is the time of the call.
C18_LastUsedBumped ==
  (cmRet.op \in CryptOps /\ cmRet.code = "none"
     /\ sessions[cmRet.sid] # NoSession)
    => sessions[cmRet.sid].lastUsed = cmRet.at

\* C19: every identity call returns the key pair the first such call
\* returned since start or clearAll.
C19_IdentityStable ==
  (cmRet.op \in {"generateIdentity", "getIdentityKeyPair"}
     /\ cmRet.code = "none")
    => cmRet.val = firstIdentity

\* C20: publishPrekeys(count) returns count ids, pairwise distinct, and no
\* id that an earlier call returned.
C20_PrekeyIdsUnique ==
  /\ [][\A count \in PublishCounts :
          (cmRet'.op = "publishPrekeys" /\ PublishPrekeys(count, TRUE)) =>
            /\ Len(cmRet'.val) = count
            /\ \A i, j \in 1..count :
                 i # j => cmRet'.val[i] # cmRet'.val[j]]_vars
  /\ []~reissued

\* C21: a successful generateSafetyNumber call returns the safetyNumber and
\* the fingerprint that any earlier successful call for the same peer and
\* device under the same local identity returned, whatever ran in between;
\* the fingerprint is the first 12 characters of the safety number and
\* isVerified is false.
C21_SafetyNumberPure ==
  (cmRet.op = "generateSafetyNumber" /\ cmRet.code = "none") =>
    /\ \A x \in safetySeen :
         (/\ x.identity = identityKeyPair
          /\ SessionId(x.peerId, x.deviceId) = cmRet.sid)
         => /\ x.result.safetyNumber = cmRet.val.safetyNumber
            /\ x.result.fingerprint = cmRet.val.fingerprint
    /\ Len(cmRet.val.fingerprint) = 12
    /\ cmRet.val.fingerprint = SubSeq(cmRet.val.safetyNumber, 1, 12)
    /\ cmRet.val.isVerified = FALSE

\* C21's case: a safety number was returned for a pair a second time, under
\* the same identity, with the session of the pair used in between
C21_Witness ==
  /\ cmRet.op = "generateSafetyNumber"
  /\ cmRet.code = "none"
  /\ cmRet.sid = CodecSession
  /\ sessions[CodecSession] # NoSession
  /\ \E x \in safetySeen :
       /\ x.identity = identityKeyPair
       /\ x.peerId = CodecPair[1] /\ x.deviceId = CodecPair[2]
       /\ x.at < sessions[CodecSession].lastUsed
       /\ sessions[CodecSession].lastUsed < cmRet.at
       /\ x.result = cmRet.val

\* C22: after clearAll has returned, without an error, the identity, the
\* sessions and the prekeys are absent from the manager and from the store,
\* also when a deletion failed.
C22_ClearAllCommits ==
  cmRet.op = "clearAll" =>
    /\ cmRet.code = "none"
    /\ identityKeyPair = 0
    /\ identityStore = 0
    /\ \A s \in SessionIds : sessions[s] = NoSession
    /\ sessionStore = NoStore
    /\ preKeys = {}
    /\ preKeyStore = NoPreKeyStore

\* the records of the list with the given id
WithId(list, id) == SelectSeq(list, LAMBDA m : m.id = id)

\* C23: when the submission of sendMessage has failed, the list holds
\* exactly one record for the send, with status 'failed', and no record
\* with status 'sending'; the error is set and the call rejects.
C23_FailedSendLeavesOneRecord ==
  [][(send.pc = "response" /\ ~send.ok /\ SendMessageReturn) =>
       /\ Len(WithId(messages', send.tempId)) = 1
       /\ WithId(messages', send.tempId)[1].status = "failed"
       /\ \A i \in 1..Len(messages') : messages'[i].status # "sending"
       /\ chatError' # "null"
       /\ send'.result = "rejected"]_vars

\* C24: when encryptMessage fails in sendMessage, the list afterwards holds
\* a record for the send with status 'failed'.
C24_CryptoErrorMarksFailed ==
  [][(/\ send.pc = "encrypt"
      /\ sessions[SessionId(send.target, MockDeviceId)] = NoSession
      /\ SendEncrypt) =>
       /\ send'.result = "rejected"
       /\ \E i \in 1..Len(messages') :
            /\ messages'[i].id = send.tempId
            /\ messages'[i].status = "failed"]_vars

\* C25: when the submission of sendMessage has succeeded, the list holds
\* exactly one record with the id the server assigned, its status is
\* 'sent', and no record with the temporary id.
C25_SentReplacesTemporary ==
  [][(send.pc = "response" /\ send.ok /\ SendMessageReturn) =>
       /\ Len(WithId(messages', send.sent)) = 1
       /\ WithId(messages', send.sent)[1].status = "sent"
       /\ Len(WithId(messages', send.tempId)) = 0]_vars

\* the steps a status may take
Forward(a, b) ==
  \/ a = b
  \/ a = "sending" /\ b \in {"sent", "failed"}
  \/ a = "sent" /\ b \in {"delivered", "read"}
  \/ a = "delivered" /\ b = "read"

\* C26: the status of a message present before and after a step moves
\* forward along sending -> {sent, failed}, sent -> delivered -> read, or
\* stays; 'failed' is never left.
C26_StatusOnlyForward ==
  [][/\ \A i \in 1..Len(messages) : \A j \in 1..Len(messages') :
          messages[i].id = messages'[j].id =>
            Forward(messages[i].status, messages'[j].status)
     /\ (Len(messages') = Len(messages) /\ send.pc = "response") =>
          \A i \in 1..Len(messages) :
            Forward(messages[i].status, messages'[i].status)]_vars

\* C27: over any sequence of changes of the message list the unread effect
\* dispatches at most one read receipt for each message id.
C27_OneReadReceiptPerMessage == \A n \in DOMAIN dispatched : dispatched[n] <= 1

\* C28: markMessagesAsRead, markMessageAsRead and markMessageAsDelivered
\* never reject, and when the dispatch failed the step that made the call
\* changed neither the messages nor the error of the store.
C28_ReceiptFailureSwallowed ==
  /\ [](receiptRet.op # "none" => receiptRet.result = "resolved")
  /\ [][UnreadEffect(FALSE) => UNCHANGED <<messages, chatError, send>>]_vars
  /\ [][\A op \in MarkOps : \A n \in 1..MaxInbound :
          MarkMessageAs(op, n, FALSE) =>
            UNCHANGED <<messages, chatError, send>>]_vars

\* C28's case: a receipt call for a message of the list has failed and the
\* error of the store is not set
C28_Witness ==
  /\ receiptRet.op \in MarkOps
  /\ receiptRet.failed
  /\ \E i \in 1..Len(messages) : messages[i].id = receiptRet.id
  /\ chatError = "null"

C30_ReceiptIdempotent ==
  [][\A key \in ReceiptKeys : \A parseOk, dbOk, found \in BOOLEAN :
       (Conflicts(receipts, key) # {}
        /\ SendReceipt(key[1], key[2], key[3], parseOk, dbOk, found))
         => UNCHANGED <<receipts, notified>>]_vars

\* the stored half of C30 alone: one row per (message, user, kind)
C30_OneRowPerKey ==
  \A key \in ReceiptKeys : Cardinality(Conflicts(receipts, key)) <= 1

\* C31: a send whose temporary record was added ends with a record for it
\* in the list: with the id the server assigned and status 'sent' when the
\* submission succeeded, with the temporary id and status 'failed' when it
\* failed.
C31_TemporaryRecordNeverRemoved ==
  [][(send.pc = "response" /\ SendMessageReturn) =>
       \E i \in 1..Len(messages') :
         \/ /\ send.ok
            /\ messages'[i].id = send.sent
            /\ messages'[i].status = "sent"
         \/ /\ ~send.ok
            /\ messages'[i].id = send.tempId
            /\ messages'[i].status = "failed"]_vars

\* C32: the temporary id of a send is the id of no record of the list when
\* its record is added, and the end of the send changes at most one record.
C32_TemporaryIdUnique ==
  [][/\ (send.pc = "encrypt" /\ SendEncrypt /\ send'.pc = "submit") =>
          Len(WithId(messages, send.tempId)) = 0
     /\ (send.pc = "response" /\ SendMessageReturn) =>
          Cardinality({i \in 1..Len(messages) :
                         messages'[i] # messages[i]}) <= 1]_vars

\* C33: the session id under which establishSession stores the session of
\* a pair is the session id of no other (peer id, device id) pair.
C33_SessionIdOfOnePair ==
  [][\A pr \in Pairs : \A b \in Bundles :
       (EstablishSession(pr[1], pr[2], b) /\ ~InvalidBundle(b)) =>
         \A other \in Pairs \ {pr} :
           SessionId(other[1], other[2]) # cmRet'.sid]_vars

\* C34: updateMessage(id, updates) keeps the length and the order of the
\* list and every record whose id is not id; when no record has the id the
\* list is as it was.
C34_UpdateMessageFrame ==
  [][\A id \in UpdateIds : \A u \in Updates :
       UpdateMessageCall(id, u) =>
         /\ Len(messages') = Len(messages)
         /\ \A i \in 1..Len(messages) :
              IF messages[i].id = id
                THEN messages'[i] = Spread(messages[i], u)
                ELSE messages'[i] = messages[i]
         /\ Len(WithId(messages, id)) = 0 => messages' = messages]_vars

\* an updateMessage call found a record with its id and one with another
\* id, and made a change
C34_Witness ==
  /\ lastUpdate.op = "updateMessage"
  /\ Len(WithId(lastUpdate.before, lastUpdate.id)) = 1
  /\ Len(lastUpdate.before) = 2
  /\ messages # lastUpdate.before
  /\ messages = UpdateMessage(lastUpdate.before, lastUpdate.id,
                              lastUpdate.updates)

\* C35: while a submitted send with its temporary record in the list waits
\* for its confirmation, a receipt for the id the server assigned and the
\* confirmation give the same list in either order, and in it the message
\* has the status of the receipt.
C35_ConfirmationAndReceiptCommute ==
  (send.pc = "response" /\ send.ok
   /\ Len(WithId(messages, send.tempId)) = 1) =>
    \A type \in ReceiptTypes :
      LET sentMessage == [id |-> send.sent, sender_id |-> Me,
                          recipient_id |-> send.target,
                          group_id |-> "undefined", status |-> "sent"]
          Confirm(list) == UpdateMessage(list, send.tempId, sentMessage)
          Receipt(list) == UpdateMessageStatus(list, send.sent, type)
      IN /\ Confirm(Receipt(messages)) = Receipt(Confirm(messages))
         /\ \A i \in 1..Len(messages) :
              Confirm(Receipt(messages))[i].id = send.sent =>
                Confirm(Receipt(messages))[i].status = type

\* C36: a close event with a code other than 1000 that finds fewer than
\* maxReconnectAttempts attempts used leaves a reconnect timer pending; a
\* pending timer leads to a new connection attempt with status
\* 'connecting', unless disconnect() clears it (or every one of the
\* MaxSockets socket objects of the model is in use, so that no further
\* one can be made); a close event with code 1000 leaves the timer and the
\* number of reconnects scheduled as they were.
C36_AbnormalClosureReconnects ==
  /\ [][\A k \in SockIds :
          ((SockFail(k) \/ SockClose(k, AbnormalClosure))
           /\ reconnectAttempts < MaxReconnectAttempts) =>
            /\ reconnectTimer'.state = "pending"
            /\ reconnectAttempts' = reconnectAttempts + 1]_vars
  /\ (reconnectTimer.state = "pending") ~>
       \/ reconnectTimer.state = "fired" /\ status = "connecting"
       \/ reconnectTimer.state = "null"
       \/ FreeSocks(Svc) = {}
  /\ [][\A k \in SockIds :
          SockClose(k, NormalClosure) =>
            UNCHANGED <<reconnectTimer, reconnectAttempts, scheduled>>]_vars

\* the timer of a reconnect has fired and a connection attempt has started
C36_Witness ==
  /\ reconnectTimer.state = "fired"
  /\ reconnectTimer.attempt >= 1
  /\ status = "connecting"
  /\ ws # 0

\* C37: after connect(), an open, close or error event of a socket other
\* than the current one leaves the status, the heartbeat timer and the
\* reconnect timer as they were.
C37_SupersededSocketIgnored ==
  [][\A k \in SockIds :
       (/\ intent = "up"
        /\ ws # 0
        /\ k # ws
        /\ \/ SockOpen(k)
           \/ SockFail(k)
           \/ \E code \in CloseCodes : SockClose(k, code)) =>
         UNCHANGED <<status, pingTimer, reconnectTimer>>]_vars

\* C38: no two records of the message list have the same id.
C38_NoDuplicateIds ==
  \A i, j \in 1..Len(messages) :
    i # j => messages[i].id # messages[j].id

\* the message is one of the conversation the chat shows
InChat(chat, m) ==
  \/ /\ chat.type = "dm"
     /\ m.group_id = "undefined"
     /\ \/ m.sender_id = Me /\ m.recipient_id = chat.participant
        \/ m.sender_id = chat.participant /\ m.recipient_id = Me
  \/ /\ chat.type = "group"
     /\ m.group_id = chat.id

\* C39: while no load is in flight every record of the message list is a
\* message of the chat that is open (none with no chat open).
C39_ListOfOpenChat ==
  load.pc = "idle" =>
    \A i \in 1..Len(messages) : InChat(currentChat, messages[i])

\* C40: getSession(id), its read of the store succeeding, returns the
\* session that this.sessions holds under id when it is called.
C40_GetSessionKeepsSession ==
  [][\A s \in SessionIds :
       (sessions[s] # NoSession /\ GetSession(s, TRUE)) =>
         /\ cmRet'.val = sessions[s]
         /\ sessions'[s] = sessions[s]]_vars

====
